---- MODULE Spec2Model ----
(***************************************************************************)
(* A model of context-translator's translation cache and inference client. *)
(*                                                                         *)
(*   SpecKey     TranslationCache._generate_key          (cache.py)        *)
(*   SpecStore   TranslationCache: initialize, get, set, clear_expired,    *)
(*               get_size, close, and the callers of clear() (cache.py,    *)
(*               main.py, context_translator_host.py)                      *)
(*   SpecClient  OpenAICompatibleClient.translate        (llm_client.py)   *)
(*   SpecRouter  FallbackLLMClient.translate             (llm_client.py)   *)
(*   SpecClean   OpenAICompatibleClient._clean_response  (llm_client.py)   *)
(*   SpecServe   the translate request of main.py and of the native host,  *)
(*               over the store                                            *)
(*   SpecRouted  FallbackLLMClient.translate over the calls of its two     *)
(*               OpenAICompatibleClients, with fairness  (llm_client.py)   *)
(*   SpecLife    the startup, service and shutdown of the two programs     *)
(*               (main.py lifespan, context_translator_host.py run)        *)
(*   SpecRace    main.py's POST /translate, several requests at a time     *)
(*                                                                         *)
(* A Python str is a sequence of one-character strings; Python's None is   *)
(* the value None below, which is no such sequence.                        *)
(***************************************************************************)
EXTENDS Integers, Sequences, FiniteSets, TLC

VARIABLES
    \* ---- SpecKey
    kreq,       \* the (text, source_lang, target_lang) of the calls being made
    kkeys,      \* context_text -> the key _generate_key returned for it
    kstable,    \* no repeated call has returned a key other than the first one
    \* ---- SpecStore
    db,         \* self.db: "None", or "conn" for the aiosqlite connection it holds
    conn,       \* the newest connection: "none" opened yet, "open", "closed",
                \* or "lost" with the process that held it
    overclosed, \* close() was called on a connection that was closed already
    file,       \* whether the database file exists at db_path
    version,    \* the rows of table schema_version (a set of integers)
    rows,       \* table translations: hash -> row, committed
    now,        \* int(time.time()), seconds since the process started
    ticks,      \* how many times the clock has advanced
    ret,        \* what the last store operation was, was given and answered
    lastSet,    \* hash -> the arguments and time of the newest set not deleted since
    expired,    \* the hashes clear_expired deleted and no set has written since
    \* ---- SpecClient
    cpc,        \* where translate() is: idle, post, sleep, returned, raised
    ctext,      \* the text being translated
    attempt,    \* the loop variable of `for attempt in range(max_retries)`
    last_error, \* the local last_error
    posts,      \* the outcomes of the requests made by this call, in order
    sleeps,     \* the waits of this call, in order
    cresult,    \* what translate() returned or raised
    \* ---- SpecRouter
    fallback,   \* self.fallback: None, or the fallback client
    rpc,        \* where FallbackLLMClient.translate() is: idle, primary, fallback, returned, raised
    rargs,      \* its arguments (text, source_lang, target_lang, context)
    rcalls,     \* the calls it has made to the two clients, in order
    primary_error, \* the exception `e` of the outer handler
    rresult,    \* what it returned or raised
    \* ---- SpecClean
    nraw,       \* response_text given to _clean_response
    norig,      \* original_text given to _clean_response
    nout,       \* what _clean_response returned or raised
    \* ---- SpecServe
    hreq,       \* the payload of the translate request handled last
    hcalls,     \* the calls that request made to llm_client.translate
    hres,       \* what the handler answered, and the rows it found
    \* ---- SpecLife, SpecRace
    life,       \* the process: its program, how far it has come, the calls
                \* of clear_expired and whether a translate request was handled
    tasks       \* the POST /translate requests of the server, each with its
                \* position and answer

keyVars == <<kreq, kkeys, kstable>>
storeVars ==
    <<db, conn, overclosed, file, version, rows, now, ticks, ret, lastSet, expired>>
clientVars == <<cpc, ctext, attempt, last_error, posts, sleeps, cresult>>
routerVars == <<fallback, rpc, rargs, rcalls, primary_error, rresult>>
cleanVars == <<nraw, norig, nout>>
serveVars == <<hreq, hcalls, hres>>
appVars == <<life, tasks>>
vars == <<keyVars, storeVars, clientVars, routerVars, cleanVars, serveVars, appVars>>

\* Python's None.
None == <<"None">>

\* The longest str drawn for an input of _generate_key.
MaxLen == 1

\* The characters of the inputs of _generate_key: a letter and the delimiter.
KeyAlphabet == {"a", "|"}

Str(alphabet, n) == UNION {[1..m -> alphabet] : m \in 0..n}

KeyStr == Str(KeyAlphabet, MaxLen)

\* str | None
OptKeyStr == KeyStr \cup {None}

(***************************************************************************)
(* TranslationCache._generate_key                                          *)
(***************************************************************************)

\* `context_text or ""`: None and the empty str are both falsy.
OrEmpty(context_text) ==
    IF context_text = None \/ context_text = <<>> THEN <<>> ELSE context_text

\* hashlib.sha256(s.encode()).hexdigest(): a digest of the whole of s, taken
\* to be injective (no collision of SHA-256 is modelled).
sha256_hexdigest(s) == <<"sha256">> \o s

\* A bug _generate_key could have: the f-string formats None as "None".
FormatNoneKey(text, source_lang, target_lang, context_text) ==
    LET context == IF context_text = None THEN <<"N", "o", "n", "e">> ELSE context_text
        key_string == text \o <<"|">> \o source_lang \o <<"|">> \o target_lang
                           \o <<"|">> \o context
    IN  sha256_hexdigest(key_string)

_generate_key(text, source_lang, target_lang, context_text) ==
    LET context == OrEmpty(context_text)
        key_string == text \o <<"|">> \o source_lang \o <<"|">> \o target_lang
                           \o <<"|">> \o context
    IN  sha256_hexdigest(key_string)

KeyRequests == [text : KeyStr, source_lang : KeyStr, target_lang : KeyStr]

KeyOf(r, c) == _generate_key(r.text, r.source_lang, r.target_lang, c)

NoKeys == [c \in {} |-> <<>>]

InitKey ==
    /\ kreq \in KeyRequests
    /\ kkeys = NoKeys
    /\ kstable = TRUE

\* A first call of _generate_key for the request with context_text = c.
DeriveKey(c) ==
    /\ c \notin DOMAIN kkeys
    /\ kkeys' = [x \in DOMAIN kkeys \cup {c} |->
                    IF x = c THEN KeyOf(kreq, c) ELSE kkeys[x]]
    /\ UNCHANGED <<kreq, kstable>>

\* A later call with the same inputs.
DeriveKeyAgain(c) ==
    /\ c \in DOMAIN kkeys
    /\ kstable
    /\ kstable' = (KeyOf(kreq, c) = kkeys[c])
    /\ UNCHANGED <<kreq, kkeys>>

(***************************************************************************)
(* TranslationCache: the store                                             *)
(***************************************************************************)

SCHEMA_VERSION == 1

\* cache.py:138, `ttl_days * 24 * 60 * 60`
SecondsPerDay == 24 * 60 * 60

\* The clock advances at most this many times.
MaxTicks == 2

\* The largest ttl_days given to clear_expired (config.py rejects ttl_days < 1).
MaxTtl == 2

\* The hashes the callers use.
Keys == {"k1", "k2"}

\* The (text, source_lang, target_lang) the callers store.
SetArgs ==
    {<<<<"H", "e", "l", "l", "o">>,
       <<"E", "n", "g", "l", "i", "s", "h">>,
       <<"G", "e", "r", "m", "a", "n">>>>,
     <<<<"B", "a", "n", "k">>,
       <<"G", "e", "r", "m", "a", "n">>,
       <<"E", "n", "g", "l", "i", "s", "h">>>>}

Translations == {<<"H", "a", "l", "l", "o">>, <<"G", "u", "t", "e", "n", " ", "T", "a", "g">>}

\* The steps the clock is seen to make between two operations.
ClockSteps == {1, SecondsPerDay}

NoRows == [k \in {} |-> <<>>]

Restrict(f, S) == [k \in S |-> f[k]]

\* The fields of ret an operation does not use.
NoRet ==
    [op |-> "none", key |-> "", val |-> None, size |-> 0, err |-> "", ttl |-> 0,
     db0 |-> "None", rows0 |-> NoRows, version0 |-> {}]

\* What every operation records of the state it found.
Found(op) ==
    [NoRet EXCEPT !.op = op, !.db0 = db, !.rows0 = rows,
                  !.version0 = version]

\* A bug the guard could have: it looks for the database file, not the
\* connection.
NoDatabaseFile == ~file

\* `if self.db is None: raise RuntimeError("Database not initialized")`
NotInitialized == db = "None"

Raise(op, err) ==
    /\ ret' = [Found(op) EXCEPT !.err = err]
    /\ UNCHANGED <<db, conn, overclosed, file, version, rows, now, ticks, lastSet, expired>>

\* _check_schema_version: the marker row is inserted only into an empty table;
\* a marker other than SCHEMA_VERSION is logged and left.
_check_schema_version(v) == IF v = {} THEN {SCHEMA_VERSION} ELSE v

\* A bug _create_schema could have: the table is dropped and created anew.
DropAndCreate(table) == NoRows

\* CREATE TABLE IF NOT EXISTS translations (...): a table that exists is
\* left with its rows.
CreateTableIfNotExists(table) == table

\* initialize(), called on a store that holds no connection (a new object, or
\* one that was closed): connect creates the file, CREATE TABLE IF NOT EXISTS
\* keeps the rows of an existing one.
initialize ==
    /\ db = "None"
    /\ db' = "conn"
    /\ conn' = "open"
    /\ file' = TRUE
    /\ version' = _check_schema_version(version)
    /\ rows' = CreateTableIfNotExists(rows)
    /\ ret' = Found("initialize")
    /\ UNCHANGED <<overclosed, now, ticks, lastSet, expired>>

\* A bug get could have: the WHERE clause is lost, and any row answers.
SelectAny(table, key) ==
    IF table # NoRows THEN table[CHOOSE k \in DOMAIN table : TRUE].translation ELSE None

\* SELECT translation FROM translations WHERE hash = ?; fetchone()
SelectTranslation(table, key) ==
    IF key \in DOMAIN table THEN table[key].translation ELSE None

get(key) ==
    IF NotInitialized
    THEN Raise("get", "RuntimeError")
    ELSE /\ ret' = [Found("get") EXCEPT !.key = key,
                                        !.val = SelectTranslation(rows, key)]
         /\ UNCHANGED <<db, conn, overclosed, file, version, rows, now, ticks, lastSet, expired>>

\* A bug set could have: INSERT OR IGNORE keeps the row of an existing hash.
InsertOrIgnore(table, key, row) ==
    [k \in DOMAIN table \cup {key} |-> IF k \in DOMAIN table THEN table[k] ELSE row]

\* A bug the schema could have: the text is declared UNIQUE, and REPLACE
\* deletes the rows of other hashes that hold the same text.
ReplaceSameText(table, key, row) ==
    [k \in {j \in DOMAIN table : table[j].text # row.text} \cup {key} |->
        IF k = key THEN row ELSE table[k]]

\* INSERT OR REPLACE INTO translations ... VALUES (?, ?, ?, ?, ?, ?)
InsertOrReplace(table, key, row) ==
    [k \in DOMAIN table \cup {key} |-> IF k = key THEN row ELSE table[k]]

\* A bug set could have: it returns after execute(), and what it wrote is in
\* the open transaction only, not in the file.
Uncommitted(table, written) == table

\* `await self.db.commit()`: the file holds what the transaction wrote.
Committed(table, written) == written

set(key, text, source_lang, target_lang, translation) ==
    IF NotInitialized
    THEN Raise("set", "RuntimeError")
    ELSE LET timestamp == now
             row == [text |-> text, source_lang |-> source_lang,
                     target_lang |-> target_lang, translation |-> translation,
                     timestamp |-> timestamp]
         IN  /\ rows' = Committed(rows, InsertOrReplace(rows, key, row))
             /\ lastSet' = [k \in DOMAIN lastSet \cup {key} |->
                               IF k = key THEN row ELSE lastSet[k]]
             /\ expired' = expired \ {key}
             /\ ret' = [Found("set") EXCEPT !.key = key, !.val = translation]
             /\ UNCHANGED <<db, conn, overclosed, file, version, now, ticks>>

\* A bug clear_expired could have: <= for <.
DeleteNotNewerThan(table, cutoff_time) ==
    Restrict(table, {k \in DOMAIN table : ~(table[k].timestamp <= cutoff_time)})

\* DELETE FROM translations WHERE timestamp < ?
DeleteOlderThan(table, cutoff_time) ==
    Restrict(table, {k \in DOMAIN table : ~(table[k].timestamp < cutoff_time)})

clear_expired(ttl_days) ==
    IF NotInitialized
    THEN Raise("clear_expired", "RuntimeError")
    ELSE LET cutoff_time == now - (ttl_days * SecondsPerDay)
         IN  /\ rows' = DeleteOlderThan(rows, cutoff_time)
             /\ lastSet' = Restrict(lastSet, DOMAIN lastSet \cap DOMAIN rows')
             /\ expired' = expired \cup (DOMAIN rows \ DOMAIN rows')
             /\ ret' = [Found("clear_expired") EXCEPT !.ttl = ttl_days]
             /\ UNCHANGED <<db, conn, overclosed, file, version, now, ticks>>

\* stat(db_path).st_size of a database file that holds the schema: some
\* positive number of bytes, in whole pages.
StSizes == {4096, 8192}

\* get_size() does not look at self.db: it answers for any store.
get_size ==
    /\ \E st_size \in (IF file THEN StSizes ELSE {0}) :
          ret' = [Found("get_size") EXCEPT !.size = st_size]
    /\ UNCHANGED <<db, conn, overclosed, file, version, rows, now, ticks, lastSet, expired>>

\* A bug close could have: the connection is closed and self.db keeps it.
KeepHandle(handle) == handle

\* close(): `if self.db:` guards the release, and `self.db = None` follows it.
ResetHandle(handle) == "None"

close ==
    /\ IF db # "None"
       THEN /\ conn' = "closed"
            /\ overclosed' = (overclosed \/ conn = "closed")
            /\ db' = ResetHandle(db)
       ELSE UNCHANGED <<db, conn, overclosed>>
    /\ ret' = Found("close")
    /\ UNCHANGED <<file, version, rows, now, ticks, lastSet, expired>>

\* The process dies with the connection open, and a new TranslationCache is
\* constructed on the same path: it holds no connection, and the file holds
\* what was committed.
crash ==
    /\ db # "None"
    /\ db' = "None"
    /\ conn' = "lost"
    /\ ret' = NoRet
    /\ UNCHANGED <<overclosed, file, version, rows, now, ticks, lastSet, expired>>

\* The methods class TranslationCache defines.
TranslationCacheMethods ==
    {"__init__", "initialize", "_create_schema", "_check_schema_version",
     "_generate_key", "get", "set", "clear_expired", "get_size", "close"}

\* `await cache.clear()`: the attribute lookup on the TranslationCache object.
CacheAttributeError(name) == name \notin TranslationCacheMethods

\* main.py, POST /cache/clear: the exception of `await cache.clear()` leaves
\* the endpoint and is answered by global_exception_handler.
clear_cache ==
    /\ CacheAttributeError("clear")
    /\ Raise("clear_cache", "AttributeError")

\* The native host's clearCache action: the exception of
\* `await self.cache.clear()` is answered by handle_message as {"error": ...}.
handle_clear_cache ==
    /\ CacheAttributeError("clear")
    /\ Raise("handle_clear_cache", "AttributeError")

\* Time passes before the next operation: ret is of the operation that has
\* just ended, and none has at the new time.
Tick ==
    /\ ticks < MaxTicks
    /\ ticks' = ticks + 1
    /\ \E d \in ClockSteps : now' = now + d
    /\ ret' = NoRet
    /\ UNCHANGED <<db, conn, overclosed, file, version, rows, lastSet, expired>>

\* A TranslationCache object just constructed, on a path that holds no file or
\* the file of an earlier run (written by this or by another schema version).
InitStore ==
    /\ db = "None"
    /\ conn = "none"
    /\ overclosed = FALSE
    /\ \/ file = FALSE /\ version = {}
       \/ file = TRUE /\ version \in {{SCHEMA_VERSION}, {SCHEMA_VERSION + 1}}
    /\ rows = NoRows
    /\ now = 0
    /\ ticks = 0
    /\ ret = NoRet
    /\ lastSet = NoRows
    /\ expired = {}

(***************************************************************************)
(* str methods and the regular expressions of _clean_response              *)
(***************************************************************************)

Min(S) == CHOOSE x \in S : \A y \in S : x <= y

\* The characters str.strip() removes and \s matches.
Whitespace == {" ", "\n", "\t", "\r"}

LowerLetters == {"a", "b", "c", "d", "e", "f", "g", "h", "i", "j", "k", "l", "m", "n", "o", "p", "q", "r", "s", "t", "u", "v", "w", "x", "y", "z"}

UpperLetters == {"A", "B", "C", "D", "E", "F", "G", "H", "I", "J", "K", "L", "M", "N", "O", "P", "Q", "R", "S", "T", "U", "V", "W", "X", "Y", "Z"}

Digits == {"0", "1", "2", "3", "4", "5", "6", "7", "8", "9"}

\* [a-zA-Z]
AsciiLetters == LowerLetters \cup UpperLetters

\* \w, over ASCII
WordChars == AsciiLetters \cup Digits \cup {"_"}

\* The character re.IGNORECASE compares.
LowerChar(c) ==
    CASE c = "A" -> "a" []
        c = "B" -> "b" []
        c = "C" -> "c" []
        c = "D" -> "d" []
        c = "E" -> "e" []
        c = "F" -> "f" []
        c = "G" -> "g" []
        c = "H" -> "h" []
        c = "I" -> "i" []
        c = "J" -> "j" []
        c = "K" -> "k" []
        c = "L" -> "l" []
        c = "M" -> "m" []
        c = "N" -> "n" []
        c = "O" -> "o" []
        c = "P" -> "p" []
        c = "Q" -> "q" []
        c = "R" -> "r" []
        c = "S" -> "s" []
        c = "T" -> "t" []
        c = "U" -> "u" []
        c = "V" -> "v" []
        c = "W" -> "w" []
        c = "X" -> "x" []
        c = "Y" -> "y" []
        c = "Z" -> "z" []
        OTHER -> c

RECURSIVE LStrip(_)
LStrip(s) == IF s = <<>> \/ Head(s) \notin Whitespace THEN s ELSE LStrip(Tail(s))

RECURSIVE RStrip(_)
RStrip(s) ==
    IF s = <<>> \/ s[Len(s)] \notin Whitespace THEN s ELSE RStrip(SubSeq(s, 1, Len(s) - 1))

\* str.strip()
Strip(s) == RStrip(LStrip(s))

\* str.startswith(c), str.endswith(c) for a one-character c
StartsWith(s, c) == s # <<>> /\ s[1] = c
EndsWith(s, c) == s # <<>> /\ s[Len(s)] = c

\* s[i:] in Python's 0-based slices is From(s, i + 1).
From(s, i) == SubSeq(s, i, Len(s))

\* The literal p (given in lower case) matches s at position i, ignoring case.
IMatchAt(s, i, p) ==
    /\ i >= 1
    /\ i + Len(p) - 1 <= Len(s)
    /\ \A j \in 1..Len(p) : LowerChar(s[i + j - 1]) = p[j]

\* re.search of a literal, ignoring case.
ISearch(s, p) == \E i \in 1..Len(s) : IMatchAt(s, i, p)

ThinkOpen == <<"<", "t", "h", "i", "n", "k", ">">>
ThinkClose == <<"<", "/", "t", "h", "i", "n", "k", ">">>

\* re.sub(r'<think>.*?</think>', '', s, flags=re.DOTALL | re.IGNORECASE):
\* from the leftmost <think> to the first </think> after it, again in what
\* follows the span.
RECURSIVE RemoveThinkSpans(_)
RemoveThinkSpans(s) ==
    LET opens == {i \in 1..Len(s) : IMatchAt(s, i, ThinkOpen)}
    IN  IF opens = {} THEN s
        ELSE LET i == Min(opens)
                 closes == {j \in (i + Len(ThinkOpen))..Len(s) : IMatchAt(s, j, ThinkClose)}
             IN  IF closes = {} THEN s
                 ELSE SubSeq(s, 1, i - 1)
                          \o RemoveThinkSpans(From(s, Min(closes) + Len(ThinkClose)))

\* re.sub(r'<think>.*', '', s, flags=re.IGNORECASE): without re.DOTALL the dot
\* matches no newline, so each match ends where its line ends.
RECURSIVE RemoveOpenThink(_)
RemoveOpenThink(s) ==
    LET opens == {i \in 1..Len(s) : IMatchAt(s, i, ThinkOpen)}
    IN  IF opens = {} THEN s
        ELSE LET i == Min(opens)
                 newlines == {j \in (i + Len(ThinkOpen))..Len(s) : s[j] = "\n"}
                 e == IF newlines = {} THEN Len(s) + 1 ELSE Min(newlines)
             IN  SubSeq(s, 1, i - 1) \o RemoveOpenThink(From(s, e))

\* Where a match of r'</?[a-zA-Z][^>]*>' that starts at i ends; 0 if there is
\* none.
TagEnd(s, i) ==
    IF i > Len(s) \/ s[i] # "<" THEN 0
    ELSE LET p == IF i + 1 <= Len(s) /\ s[i + 1] = "/" THEN i + 2 ELSE i + 1
             ends == {j \in (p + 1)..Len(s) : s[j] = ">"}
         IN  IF p <= Len(s) /\ s[p] \in AsciiLetters /\ ends # {} THEN Min(ends) ELSE 0

\* re.sub(r'</?[a-zA-Z][^>]*>', '', s)
RECURSIVE RemoveTags(_)
RemoveTags(s) ==
    LET starts == {i \in 1..Len(s) : TagEnd(s, i) > 0}
    IN  IF starts = {} THEN s
        ELSE LET i == Min(starts)
             IN  SubSeq(s, 1, i - 1) \o RemoveTags(From(s, TagEnd(s, i) + 1))

\* The alternatives of r'^(?:okay|alright|sure|well|let me|i will|i\'ll)[,\s]'
VerboseFillers ==
    {<<"o", "k", "a", "y">>,
     <<"a", "l", "r", "i", "g", "h", "t">>,
     <<"s", "u", "r", "e">>,
     <<"w", "e", "l", "l">>,
     <<"l", "e", "t", " ", "m", "e">>,
     <<"i", " ", "w", "i", "l", "l">>,
     <<"i", "'", "l", "l">>}

\* re.search(prefix_pattern, s, re.IGNORECASE)
HasVerbosePrefix(s) ==
    \E w \in VerboseFillers :
        /\ IMatchAt(s, 1, w)
        /\ Len(s) > Len(w)
        /\ s[Len(w) + 1] \in {","} \cup Whitespace

QuoteChars == {"\"", "'"}

\* Where the leftmost match of r'["\']([^"\']+)["\']' starts and ends:
\* <<i, j>>, two quote characters with one or more other characters and no
\* quote character between them; <<0, 0>> if there is no match.
QuotedSpan(s) ==
    LET closing(i) == {j \in (i + 1)..Len(s) : s[j] \in QuoteChars}
        starts == {i \in 1..Len(s) :
                      /\ s[i] \in QuoteChars
                      /\ closing(i) # {}
                      /\ Min(closing(i)) > i + 1}
    IN  IF starts = {} THEN <<0, 0>>
        ELSE <<Min(starts), Min(closing(Min(starts)))>>

\* The explanation_patterns that match anywhere, and those anchored by ^ (the
\* start of the string: re.MULTILINE is not set).
ExplanationAnywhere ==
    {<<"t", "h", "e", " ", "t", "r", "a", "n", "s", "l", "a", "t", "i", "o", "n", " ", "i", "s">>,
     <<"t", "h", "i", "s", " ", "m", "e", "a", "n", "s">>,
     <<"t", "r", "a", "n", "s", "l", "a", "t", "e", "s", " ", "t", "o">>,
     <<"r", "e", "f", "e", "r", "s", " ", "t", "o">>}

ExplanationAtStart ==
    {<<"e", "x", "p", "l", "a", "n", "a", "t", "i", "o", "n", ":">>, <<"n", "o", "t", "e", ":">>, <<"t", "r", "a", "n", "s", "l", "a", "t", "i", "o", "n", ":">>}

\* any(re.search(p, s) for p in explanation_patterns)
MatchesExplanation(s) ==
    \/ \E p \in ExplanationAnywhere : ISearch(s, p)
    \/ \E p \in ExplanationAtStart : IMatchAt(s, 1, p)

\* The alternatives of r"(?i)\b(is|means|refers to)\b"
LinkingWords == {<<"i", "s">>, <<"m", "e", "a", "n", "s">>, <<"r", "e", "f", "e", "r", "s", " ", "t", "o">>}

\* \b at position i: between s[i-1] and s[i], one is a word character and the
\* other is not (the ends of s count as no word character).
WordBoundary(s, i) ==
    LET before == i > 1 /\ i - 1 <= Len(s) /\ s[i - 1] \in WordChars
        after == i >= 1 /\ i <= Len(s) /\ s[i] \in WordChars
    IN  before # after

\* A bug the split could have: no \b around the alternatives, so that the
\* "is" of "This" is a linking word.
LinkingWordInside(s, i) == \E w \in LinkingWords : IMatchAt(s, i, w)

LinkingWordAt(s, i) ==
    \E w \in LinkingWords :
        IMatchAt(s, i, w) /\ WordBoundary(s, i) /\ WordBoundary(s, i + Len(w))

\* re.split(r"(?i)\b(is|means|refers to)\b", s, maxsplit=1)[0]: what precedes
\* the leftmost linking word, the whole of s if there is none.
BeforeLinkingWord(s) ==
    LET at == {i \in 1..Len(s) : LinkingWordAt(s, i)}
    IN  IF at = {} THEN s ELSE SubSeq(s, 1, Min(at) - 1)

\* str.split("\n")
RECURSIVE SplitLines(_)
SplitLines(s) ==
    LET newlines == {i \in 1..Len(s) : s[i] = "\n"}
    IN  IF newlines = {} THEN <<s>>
        ELSE <<SubSeq(s, 1, Min(newlines) - 1)>> \o SplitLines(From(s, Min(newlines) + 1))

(***************************************************************************)
(* OpenAICompatibleClient._clean_response                                  *)
(***************************************************************************)

Cleaned(text) == [raised |-> "", text |-> text]

CleanError(msg) == [raised |-> msg, text |-> <<>>]

\* Lines 133-136: the three substitutions and the strip.
StripMarkup(cleaned) == Strip(RemoveTags(RemoveOpenThink(RemoveThinkSpans(cleaned))))

\* Lines 142-155: a verbose prefix makes the first quoted span the text, if
\* it is not blank and not longer than twice the original.
ExtractFromVerbose(cleaned, original_text) ==
    IF HasVerbosePrefix(cleaned)
    THEN LET span == QuotedSpan(cleaned)
             potential == Strip(SubSeq(cleaned, span[1] + 1, span[2] - 1))
         IN  IF span[1] > 0 /\ potential # <<>>
                            /\ Len(potential) <= Len(original_text) * 2
             THEN potential ELSE cleaned
    ELSE cleaned

\* Lines 157-163: quotes the original does not have are taken off.
StripAddedQuotes(cleaned, original_text) ==
    LET original_has_quotes ==
            StartsWith(original_text, "\"") /\ EndsWith(original_text, "\"")
        has_added_quotes ==
            \/ StartsWith(cleaned, "\"") /\ EndsWith(cleaned, "\"")
            \/ StartsWith(cleaned, "'") /\ EndsWith(cleaned, "'")
    IN  IF ~original_has_quotes /\ has_added_quotes
        THEN Strip(SubSeq(cleaned, 2, Len(cleaned) - 1))
        ELSE cleaned

\* Lines 165-185: the text before the first linking word, if a pattern
\* matches and that text is not blank. (A pattern that matches without
\* replacing the text leaves it to the next pattern, which sees the same text.)
CutExplanation(cleaned) ==
    IF MatchesExplanation(cleaned)
    THEN LET part0 == BeforeLinkingWord(cleaned)
             potential_translation == Strip(part0)
         IN  IF Len(part0) > 0 /\ Len(potential_translation) > 0
             THEN potential_translation ELSE cleaned
    ELSE cleaned

\* A bug the loop over the lines could have: the explanation patterns are
\* not tried, and the first line that is not blank is taken.
FirstNonBlankLine(cleaned) ==
    LET lines == SplitLines(cleaned)
        good == {i \in 1..Len(lines) : Strip(lines[i]) # <<>>}
    IN  IF Len(lines) > 1 /\ good # {} THEN Strip(lines[Min(good)]) ELSE cleaned

\* Lines 187-193: of several lines, the first that is not blank and matches no
\* explanation pattern.
FirstPlainLine(cleaned) ==
    LET lines == SplitLines(cleaned)
        good == {i \in 1..Len(lines) :
                    Strip(lines[i]) # <<>> /\ ~MatchesExplanation(Strip(lines[i]))}
    IN  IF Len(lines) > 1 /\ good # {} THEN Strip(lines[Min(good)]) ELSE cleaned

\* A bug _clean_response could have: no check after the last strip.
CleanWithoutLastCheck(response_text, original_text) ==
    LET cleaned1 == Strip(response_text)
        cleaned2 == StripMarkup(cleaned1)
        cleaned7 == Strip(FirstPlainLine(CutExplanation(StripAddedQuotes(
                        ExtractFromVerbose(cleaned2, original_text), original_text))))
    IN  IF cleaned1 = <<>> THEN CleanError("Empty response from LLM")
        ELSE IF cleaned2 = <<>>
        THEN CleanError("Empty response after removing thinking tags")
        ELSE Cleaned(cleaned7)

\* A bug _clean_response could have: the length check of lines 130-131
\* raises where it only logs.
CleanRejectingLong(response_text, original_text) ==
    LET cleaned1 == Strip(response_text)
        cleaned2 == StripMarkup(cleaned1)
        cleaned7 == Strip(FirstPlainLine(CutExplanation(StripAddedQuotes(
                        ExtractFromVerbose(cleaned2, original_text), original_text))))
    IN  IF cleaned1 = <<>> THEN CleanError("Empty response from LLM")
        ELSE IF Len(cleaned1) > Len(original_text) * 3
        THEN CleanError("Response unusually long")
        ELSE IF cleaned2 = <<>>
        THEN CleanError("Empty response after removing thinking tags")
        ELSE IF cleaned7 = <<>>
        THEN CleanError("Response cleaning resulted in empty translation")
        ELSE Cleaned(cleaned7)

_clean_response(response_text, original_text) ==
    LET cleaned1 == Strip(response_text)
        cleaned2 == StripMarkup(cleaned1)
        cleaned3 == ExtractFromVerbose(cleaned2, original_text)
        cleaned4 == StripAddedQuotes(cleaned3, original_text)
        cleaned5 == CutExplanation(cleaned4)
        cleaned6 == FirstPlainLine(cleaned5)
        cleaned7 == Strip(cleaned6)
    IN  IF cleaned1 = <<>> THEN CleanError("Empty response from LLM")
        ELSE IF cleaned2 = <<>>
        THEN CleanError("Empty response after removing thinking tags")
        ELSE IF cleaned7 = <<>>
        THEN CleanError("Response cleaning resulted in empty translation")
        ELSE Cleaned(cleaned7)

(***************************************************************************)
(* OpenAICompatibleClient.translate                                        *)
(***************************************************************************)

DEFAULT_MAX_RETRIES == 3

\* The texts given to translate().
ClientTexts ==
    {<<"H", "e", "l", "l", "o">>,
     <<"\"", "H", "e", "l", "l", "o", "\"">>,
     <<"H", "a", "u", "s">>,
     <<"B", "a", "n", "k">>}

\* The completions a provider answers with: data["choices"][0]["message"]["content"].
Contents ==
    {<<"H", "a", "l", "l", "o">>,
     <<" ", " ", "H", "a", "l", "l", "o", " ", " ">>,
     <<>>,
     <<"\"", "H", "a", "l", "l", "o", "\"">>,
     <<"<", "t", "h", "i", "n", "k", ">", "r", "e", "a", "s", "o", "n", "i", "n", "g", "<", "/", "t", "h", "i", "n", "k", ">", "h", "o", "u", "s", "e">>,
     <<"h", "o", "u", "s", "e", "\n", "\n", "T", "h", "e", " ", "t", "r", "a", "n", "s", "l", "a", "t", "i", "o", "n", " ", "i", "s", " ", "c", "o", "r", "r", "e", "c", "t", ".">>,
     <<"<", "t", "h", "i", "n", "k", ">">>,
     <<"S", "u", "r", "e", ",", " ", "'", "H", "a", "l", "l", "o", "'", " ", "i", "t", " ", "i", "s">>,
     <<"b", "e", "n", "c", "h">>,
     <<"'", "b", "e", "n", "c", "h", "'">>}

\* How a request ends other than with a completion: the exception of
\* client.post (a timeout, another transport failure), of raise_for_status,
\* or of the subscripts of data["choices"][0]["message"]["content"].
PostFailures == {"TimeoutException", "ConnectError", "HTTPStatusError", "KeyError", "IndexError"}

NoError == [kind |-> "none", attempt |-> 0]

NoResult == [kind |-> "none", value |-> <<>>, exc |-> "", msg |-> "", cause |-> NoError]

Return(value) == [NoResult EXCEPT !.kind = "return", !.value = value]

\* `raise exc(msg) from cause`
RaiseFrom(exc, msg, cause) ==
    [NoResult EXCEPT !.kind = "raise", !.exc = exc, !.msg = msg, !.cause = cause]

RECURSIVE Pow2(_)
Pow2(n) == IF n = 0 THEN 1 ELSE 2 * Pow2(n - 1)

\* A bug _exponential_backoff could have: 2 * attempt for 2 ** attempt.
WaitLinear(n) == IF 2 * n < 8 THEN 2 * n ELSE 8

\* _exponential_backoff: wait_time = min(2**attempt, 8)
wait_time(n) == IF Pow2(n) < 8 THEN Pow2(n) ELSE 8

\* A bug the loop could have: range(max_retries + 1).
InRangePlusOne(n) == n < DEFAULT_MAX_RETRIES + 1

\* `for attempt in range(max_retries)`
InRange(n) == n < DEFAULT_MAX_RETRIES

\* A bug the handlers could have: the lookup errors of a malformed payload
\* caught with the timeout, `except (httpx.TimeoutException, KeyError, IndexError)`.
RetriedLookupError(e) == e \in {"TimeoutException", "KeyError", "IndexError"}

\* A bug the handlers could have: `except httpx.TransportError`, the base
\* class of the timeout and of the connection errors, in the place of the
\* first handler.
RetriedTransportError(e) == e \in {"TimeoutException", "ConnectError"}

\* A bug the handlers could have: `except httpx.HTTPError`, the base class of
\* the timeout and of the status error, in the place of the first handler.
RetriedHTTPError(e) == e \in {"TimeoutException", "HTTPStatusError"}

\* `except httpx.TimeoutException`: the one handler that does not raise.
Retried(e) == e = "TimeoutException"

InitClient ==
    /\ cpc = "idle"
    /\ ctext = <<>>
    /\ attempt = 0
    /\ last_error = NoError
    /\ posts = <<>>
    /\ sleeps = <<>>
    /\ cresult = NoResult

\* translate() is called: the payload is built and the loop entered.
translate(text) ==
    /\ cpc \in {"idle", "returned", "raised"}
    /\ cpc' = "post"
    /\ ctext' = text
    /\ attempt' = 0
    /\ last_error' = NoError
    /\ posts' = <<>>
    /\ sleeps' = <<>>
    /\ cresult' = NoResult

\* The loop goes to its next iteration, or is over and the statement after it
\* raises from last_error.
ForNext(e) ==
    IF InRange(attempt + 1)
    THEN /\ attempt' = attempt + 1
         /\ cpc' = "post"
         /\ cresult' = cresult
    ELSE /\ attempt' = attempt
         /\ cpc' = "raised"
         /\ cresult' = RaiseFrom("ValueError", "Translation failed after 3 attempts", e)

\* The request of this attempt ends with exception e, and its handler runs.
PostFails(e) ==
    /\ cpc = "post"
    /\ posts' = Append(posts, e)
    /\ last_error' = [kind |-> e, attempt |-> attempt]
    /\ UNCHANGED ctext
    /\ IF Retried(e)
       THEN IF attempt < DEFAULT_MAX_RETRIES - 1
            THEN /\ sleeps' = Append(sleeps, wait_time(attempt))
                 /\ cpc' = "sleep"
                 /\ UNCHANGED <<attempt, cresult>>
            ELSE /\ ForNext(last_error')
                 /\ UNCHANGED sleeps
       ELSE /\ cpc' = "raised"
            /\ cresult' =
                  CASE e = "HTTPStatusError" ->
                         RaiseFrom("ValueError", "LLM server returned error", last_error')
                    [] e \in {"KeyError", "IndexError"} ->
                         RaiseFrom("ValueError", "LLM response format is invalid", last_error')
                    [] OTHER -> RaiseFrom(e, "", NoError)
            /\ UNCHANGED <<attempt, sleeps>>

\* A bug the handlers could have: ValueError caught with the lookup errors,
\* `except (KeyError, IndexError, ValueError)`, which makes the failure of
\* _clean_response a format error.
PostAnsweredAsFormatError(content) ==
    /\ cpc = "post"
    /\ posts' = Append(posts, "ok")
    /\ LET r == _clean_response(content, ctext)
       IN  IF r.raised = ""
           THEN /\ cpc' = "returned"
                /\ cresult' = Return(r.text)
                /\ UNCHANGED last_error
           ELSE /\ cpc' = "raised"
                /\ last_error' = [kind |-> "ValueError", attempt |-> attempt]
                /\ cresult' = RaiseFrom("ValueError", "LLM response format is invalid",
                                        last_error')
    /\ UNCHANGED <<ctext, attempt, sleeps>>

\* A bug translate could have: the completion is returned as the provider
\* gave it, without _clean_response.
PostAnsweredUncleaned(content) ==
    /\ cpc = "post"
    /\ posts' = Append(posts, "ok")
    /\ cpc' = "returned"
    /\ cresult' = Return(content)
    /\ UNCHANGED <<ctext, attempt, sleeps, last_error>>

\* A bug translate could have: the cleaned text is kept in a variable and the
\* loop goes on, the return being after the loop.
PostAnsweredReturnsAfterLoop(content) ==
    /\ cpc = "post"
    /\ posts' = Append(posts, "ok")
    /\ LET r == _clean_response(content, ctext)
       IN  IF r.raised # ""
           THEN /\ cpc' = "raised"
                /\ cresult' = RaiseFrom("ValueError", r.raised, NoError)
                /\ last_error' = [kind |-> "ValueError", attempt |-> attempt]
                /\ UNCHANGED attempt
           ELSE /\ cresult' = Return(r.text)
                /\ UNCHANGED last_error
                /\ IF InRange(attempt + 1)
                   THEN cpc' = "post" /\ attempt' = attempt + 1
                   ELSE cpc' = "returned" /\ UNCHANGED attempt
    /\ UNCHANGED <<ctext, sleeps>>

\* The request of this attempt is answered with a completion: the cleaned
\* text is returned, or the ValueError of _clean_response passes through
\* `except Exception`, which raises it again.
PostAnswered(content) ==
    /\ cpc = "post"
    /\ posts' = Append(posts, "ok")
    /\ LET r == _clean_response(content, ctext)
       IN  IF r.raised = ""
           THEN /\ cpc' = "returned"
                /\ cresult' = Return(r.text)
                /\ UNCHANGED last_error
           ELSE /\ cpc' = "raised"
                /\ cresult' = RaiseFrom("ValueError", r.raised, NoError)
                /\ last_error' = [kind |-> "ValueError", attempt |-> attempt]
    /\ UNCHANGED <<ctext, attempt, sleeps>>

\* asyncio.sleep(wait_time) is over.
BackoffOver ==
    /\ cpc = "sleep"
    /\ ForNext(last_error)
    /\ UNCHANGED <<ctext, last_error, posts, sleeps>>

(***************************************************************************)
(* FallbackLLMClient.translate                                             *)
(***************************************************************************)

\* The arguments translate() is called with.
RouterArgs ==
    {[text |-> t, source_lang |-> "English", target_lang |-> "German", context |-> c] :
        t \in {<<"H", "e", "l", "l", "o">>, <<"B", "a", "n", "k">>},
        c \in {None, <<"r", "i", "v", "e", "r">>}}

\* No exception: the __cause__ and __context__ of an exception raised on its own.
NoException == [type |-> "None"]

Exception(type, msg) ==
    [type |-> type, msg |-> <<msg>>, cause |-> NoException, context |-> NoException]

\* What an LLMClient.translate raises: the ValueErrors of
\* OpenAICompatibleClient.translate and of _clean_response, and the transport
\* failure it raises again.
ClientFailures ==
    {Exception("ValueError", "Translation failed after 3 attempts"),
     Exception("ValueError", "LLM server returned error"),
     Exception("ValueError", "Empty response from LLM"),
     Exception("ConnectError", "")}

NoOutcome == [kind |-> "none", value |-> <<>>, error |-> NoException]

Returned(value) == [kind |-> "return", value |-> value, error |-> NoException]

Raised(error) == [kind |-> "raise", value |-> <<>>, error |-> error]

\* A call to one of the two clients, and how it ended.
Call(to, args) == [to |-> to, args |-> args, out |-> NoOutcome]

\* The newest call has ended with outcome out.
Ended(calls, out) == [calls EXCEPT ![Len(calls)].out = out]

InitRouter ==
    /\ fallback \in {"None", "client"}
    /\ rpc = "idle"
    /\ rargs = [text |-> <<>>, source_lang |-> "", target_lang |-> "", context |-> None]
    /\ rcalls = <<>>
    /\ primary_error = NoException
    /\ rresult = NoOutcome

\* translate() is called and awaits self.primary.translate(...).
FallbackLLMClient_translate(args) ==
    /\ rpc \in {"idle", "returned", "raised"}
    /\ rpc' = "primary"
    /\ rargs' = args
    /\ rcalls' = <<Call("primary", args)>>
    /\ primary_error' = NoException
    /\ rresult' = NoOutcome
    /\ UNCHANGED fallback

\* `return await self.primary.translate(...)`
PrimaryReturns(value) ==
    /\ rpc = "primary"
    /\ rpc' = "returned"
    /\ rcalls' = Ended(rcalls, Returned(value))
    /\ rresult' = Returned(value)
    /\ UNCHANGED <<fallback, rargs, primary_error>>

\* A bug the fallback call could have: it is made without the context.
FallbackArgsNoContext(args) == [args EXCEPT !.context = None]

\* `self.fallback.translate(text, source_lang, target_lang, context)`
FallbackArgs(args) == args

\* A bug the last line could have: the primary's failure wrapped in a
\* ValueError, as the failure of both is.
WrapPrimary(e) ==
    [type |-> "ValueError", msg |-> <<"Primary LLM failed", e.type>>,
     cause |-> e, context |-> e]

\* The bare `raise` of the last line: the exception being handled, itself.
Reraise(e) == e

\* `except Exception as e`: with a fallback the fallback is awaited, without
\* one e is raised again.
PrimaryRaises(e) ==
    /\ rpc = "primary"
    /\ primary_error' = e
    /\ IF fallback # "None"
       THEN /\ rpc' = "fallback"
            /\ rcalls' = Append(Ended(rcalls, Raised(e)),
                                Call("fallback", FallbackArgs(rargs)))
            /\ UNCHANGED rresult
       ELSE /\ rpc' = "raised"
            /\ rcalls' = Ended(rcalls, Raised(e))
            /\ rresult' = Raised(Reraise(e))
    /\ UNCHANGED <<fallback, rargs>>

\* `return result`, the result of the fallback.
FallbackReturns(value) ==
    /\ rpc = "fallback"
    /\ rpc' = "returned"
    /\ rcalls' = Ended(rcalls, Returned(value))
    /\ rresult' = Returned(value)
    /\ UNCHANGED <<fallback, rargs, primary_error>>

\* A bug the inner handler could have: the message names the type of the
\* fallback's failure in both places.
FallbackTypeTwice(e, fallback_error) ==
    [type |-> "ValueError",
     msg |-> <<"Both primary and fallback LLMs failed",
               fallback_error.type, fallback_error.type>>,
     cause |-> fallback_error,
     context |-> fallback_error]

\* `raise ValueError(both_failed_msg) from fallback_error`: the message names
\* the types of both, and the exception being handled is fallback_error.
BothFailed(e, fallback_error) ==
    [type |-> "ValueError",
     msg |-> <<"Both primary and fallback LLMs failed", e.type, fallback_error.type>>,
     cause |-> fallback_error,
     context |-> fallback_error]

\* A bug the inner handler could have: a retry loop around the fallback, which
\* is awaited again when it fails.
FallbackRaisesAgain(f) ==
    /\ rpc = "fallback"
    /\ rpc' = "fallback"
    /\ rcalls' = Append(Ended(rcalls, Raised(f)), Call("fallback", FallbackArgs(rargs)))
    /\ UNCHANGED <<fallback, rargs, primary_error, rresult>>

\* `except Exception as fallback_error`: the fallback raised f while e was
\* being handled, which makes e the __context__ of f.
FallbackRaises(f) ==
    /\ rpc = "fallback"
    /\ rpc' = "raised"
    /\ LET fallback_error == [f EXCEPT !.context = primary_error]
       IN  /\ rcalls' = Ended(rcalls, Raised(fallback_error))
           /\ rresult' = Raised(BothFailed(primary_error, fallback_error))
    /\ UNCHANGED <<fallback, rargs, primary_error>>

\* _clean_response has not been called.
NotCleaned == [raised |-> "not called", text |-> <<>>]

NoPayload == [text |-> None, source_lang |-> None, target_lang |-> None,
              context |-> None, use_cache |-> TRUE]

(***************************************************************************)
(* The translate operation: main.py's POST /translate and the native       *)
(* host's translate action                                                 *)
(***************************************************************************)

\* The payloads of the translate requests: the fields payload.get() reads,
\* use_cache being True when the payload does not give it. One payload has no
\* text, and the one with an empty context does not opt out of the cache.
Payloads ==
    {p \in [text : {None, <<"H", "e", "l", "l", "o">>},
            source_lang : {<<"E", "n", "g", "l", "i", "s", "h">>},
            target_lang : {<<"G", "e", "r", "m", "a", "n">>},
            context : {None, <<>>, <<"r", "i", "v", "e", "r">>},
            use_cache : BOOLEAN] :
        /\ p.text = None => (p.context = None /\ p.use_cache)
        /\ p.context = <<>> => p.use_cache}

\* The requests POST /translate hands to translate(): pydantic and
\* sanitize_translation_request have let them pass, and there is no
\* use_cache to give.
Requests ==
    {p \in Payloads : p.text # None /\ p.context # <<>> /\ p.use_cache}

\* What llm_client.translate does when it is awaited.
\* It returns a translation, raises, or the task that awaits it is cancelled.
LLMOutcomes ==
    {Returned(v) : v \in Translations}
        \cup {Raised(Exception("ValueError", "Translation failed after 3 attempts")),
              Raised(Exception("CancelledError", ""))}

\* `not x` of a str or None.
Falsy(x) == x = None \/ x = <<>>

\* status is the status code of an HTTP answer that reports a failure.
NoAnswer ==
    [kind |-> "none", by |-> "", translation |-> <<>>, cached |-> FALSE,
     error |-> "", status |-> 0, rows0 |-> NoRows]

\* {"translation": ..., "cached": ...}
Answer(by, translation, cached) ==
    [NoAnswer EXCEPT !.kind = "result", !.by = by, !.translation = translation,
                     !.cached = cached, !.rows0 = rows]

\* The exception that leaves the handler, answered as an error.
AnswerError(by, error) ==
    [NoAnswer EXCEPT !.kind = "error", !.by = by, !.error = error, !.rows0 = rows]

\* The arguments of `llm_client.translate(text, source_lang, target_lang, context)`.
TranslateArgs(p) ==
    [text |-> p.text, source_lang |-> p.source_lang,
     target_lang |-> p.target_lang, context |-> p.context]

\* The native host after initialize(): the store is open, on a new file.
InitServe ==
    /\ db = "conn"
    /\ conn = "open"
    /\ overclosed = FALSE
    /\ file = TRUE
    /\ version = {SCHEMA_VERSION}
    /\ rows = NoRows
    /\ now = 0
    /\ ticks = 0
    /\ ret = NoRet
    /\ lastSet = NoRows
    /\ expired = {}
    /\ hreq = NoPayload
    /\ hcalls = <<>>
    /\ hres = NoAnswer

\* A bug handle_translate could have: on a miss it writes the entry before
\* the provider is asked, with an empty translation that the result replaces.
handle_translate_PlaceholderFirst(payload, out) ==
    LET cache_key == _generate_key(payload.text, payload.source_lang,
                                   payload.target_lang, payload.context)
        cached_translation == SelectTranslation(rows, cache_key)
    IN  /\ hreq' = payload
        /\ IF Falsy(payload.text) \/ NotInitialized \/ ~payload.use_cache
           THEN /\ hcalls' = <<>>
                /\ hres' = AnswerError("handle_translate", "ValueError")
                /\ UNCHANGED storeVars
           ELSE IF ~Falsy(cached_translation)
           THEN /\ get(cache_key)
                /\ hcalls' = <<>>
                /\ hres' = Answer("handle_translate", cached_translation, TRUE)
           ELSE /\ hcalls' = <<TranslateArgs(payload)>>
                /\ set(cache_key, payload.text, payload.source_lang, payload.target_lang,
                       IF out.kind = "raise" THEN <<>> ELSE out.value)
                /\ hres' = IF out.kind = "raise"
                           THEN AnswerError("handle_translate", out.error.type)
                           ELSE Answer("handle_translate", out.value, FALSE)

\* A bug handle_translate could have: use_cache guards the lookup only, and
\* the translation is stored whatever it says.
handle_translate_StoresAlways(payload, out) ==
    LET cache_key == _generate_key(payload.text, payload.source_lang,
                                   payload.target_lang, payload.context)
        cached_translation == SelectTranslation(rows, cache_key)
    IN  /\ hreq' = payload
        /\ IF Falsy(payload.text) \/ Falsy(payload.source_lang) \/ Falsy(payload.target_lang)
           THEN /\ hcalls' = <<>>
                /\ hres' = AnswerError("handle_translate", "ValueError")
                /\ UNCHANGED storeVars
           ELSE IF payload.use_cache /\ ~Falsy(cached_translation)
           THEN /\ get(cache_key)
                /\ hcalls' = <<>>
                /\ hres' = Answer("handle_translate", cached_translation, TRUE)
           ELSE /\ hcalls' = <<TranslateArgs(payload)>>
                /\ IF out.kind = "raise"
                   THEN /\ UNCHANGED storeVars
                        /\ hres' = AnswerError("handle_translate", out.error.type)
                   ELSE /\ set(cache_key, payload.text, payload.source_lang,
                               payload.target_lang, out.value)
                        /\ hres' = Answer("handle_translate", out.value, FALSE)

\* NativeMessagingHost.handle_translate, with what handle_message answers.
\* out is what llm_client.translate does if it is awaited. The host reads
\* the next message when this one is answered.
handle_translate(payload, out) ==
    LET text == payload.text
        source_lang == payload.source_lang
        target_lang == payload.target_lang
        context == payload.context
        use_cache == payload.use_cache
        cache_key == _generate_key(text, source_lang, target_lang, context)
        cached_translation == SelectTranslation(rows, cache_key)
    IN  /\ hreq' = payload
        /\ IF Falsy(text) \/ Falsy(source_lang) \/ Falsy(target_lang)
           THEN /\ hcalls' = <<>>
                /\ hres' = AnswerError("handle_translate", "ValueError")
                /\ UNCHANGED storeVars
           ELSE IF use_cache /\ NotInitialized
           THEN /\ get(cache_key)
                /\ hcalls' = <<>>
                /\ hres' = AnswerError("handle_translate", "RuntimeError")
           ELSE IF use_cache /\ ~Falsy(cached_translation)
           THEN /\ get(cache_key)
                /\ hcalls' = <<>>
                /\ hres' = Answer("handle_translate", cached_translation, TRUE)
           ELSE /\ hcalls' = <<TranslateArgs(payload)>>
                /\ IF out.kind = "raise"
                   THEN /\ IF use_cache THEN get(cache_key) ELSE UNCHANGED storeVars
                        /\ hres' = AnswerError("handle_translate", out.error.type)
                   ELSE /\ IF use_cache
                           THEN set(cache_key, text, source_lang, target_lang, out.value)
                           ELSE UNCHANGED storeVars
                        /\ hres' = Answer("handle_translate", out.value, FALSE)

\* `raise HTTPException(status_code=..., detail=ErrorResponse(error=...))`
HTTPException(by, status_code, error) ==
    [AnswerError(by, error) EXCEPT !.status = status_code]

(***************************************************************************)
(* validation.py                                                           *)
(***************************************************************************)

\* config.translation.max_text_length of the configuration that is modelled:
\* any number from 1 (500 when the configuration file gives none).
max_text_length == 8

\* config.translation.supported_languages, three of them.
supported_languages ==
    {<<"E", "n", "g", "l", "i", "s", "h">>, <<"G", "e", "r", "m", "a", "n">>,
     <<"F", "r", "e", "n", "c", "h">>}

\* Stands for U+200B ZERO WIDTH SPACE: a character that is not printable and
\* that strip() and \s leave alone.
ZWSP == "U+200B"

\* `ch.isprintable() or ch in "\n\t"`
KeptBySanitizer(ch) == ch \notin {ZWSP, "\r", "\f"}

\* re.sub(r"\s+", " ", cleaned): the last character of a run of whitespace
\* becomes the space, the ones before it go.
RECURSIVE CollapseWhitespace(_)
CollapseWhitespace(s) ==
    IF s = <<>> THEN <<>>
    ELSE IF Head(s) \notin Whitespace THEN <<Head(s)>> \o CollapseWhitespace(Tail(s))
    ELSE IF Len(s) > 1 /\ s[2] \in Whitespace THEN CollapseWhitespace(Tail(s))
    ELSE <<" ">> \o CollapseWhitespace(Tail(s))

\* The value sanitize_text_input returns if it raises nothing.
SanitizedText(text) == Strip(CollapseWhitespace(SelectSeq(text, KeptBySanitizer)))

\* sanitize_text_input: the message of the ValueError it raises, "" if none.
sanitize_text_input(text, max_length) ==
    IF Falsy(text) THEN "Text must be a non-empty string"
    ELSE IF SanitizedText(text) = <<>> THEN "Text is empty after sanitization"
    ELSE IF Len(SanitizedText(text)) > max_length THEN "Text exceeds maximum length"
    ELSE ""

\* validate_language_code: the message of the ValueError it raises, "" if none.
validate_language_code(lang_code, supported) ==
    LET lang_code_clean == Strip(lang_code)
    IN  IF Falsy(lang_code) THEN "Language code must be a non-empty string"
        ELSE IF \/ lang_code_clean = <<>>
                \/ Head(lang_code_clean) \notin AsciiLetters
                \/ \E i \in 2..Len(lang_code_clean) :
                      lang_code_clean[i] \notin WordChars \cup Whitespace \cup {"-"}
             THEN "Invalid language code format"
        ELSE IF lang_code \notin supported THEN "Unsupported language"
        ELSE ""

\* A bug sanitize_translation_request could have: the two languages are not
\* compared.
SanitizeWithoutComparison(request) ==
    IF sanitize_text_input(request.text, max_text_length) # ""
    THEN sanitize_text_input(request.text, max_text_length)
    ELSE IF validate_language_code(request.source_lang, supported_languages) # ""
    THEN validate_language_code(request.source_lang, supported_languages)
    ELSE validate_language_code(request.target_lang, supported_languages)

\* sanitize_translation_request: the message of the ValueError it raises,
\* "" if the request passes.
sanitize_translation_request(request) ==
    IF sanitize_text_input(request.text, max_text_length) # ""
    THEN sanitize_text_input(request.text, max_text_length)
    ELSE IF validate_language_code(request.source_lang, supported_languages) # ""
    THEN validate_language_code(request.source_lang, supported_languages)
    ELSE IF validate_language_code(request.target_lang, supported_languages) # ""
    THEN validate_language_code(request.target_lang, supported_languages)
    ELSE IF request.source_lang = request.target_lang
    THEN "Source and target languages must be different"
    ELSE ""

\* The requests POST /translate rejects: a text that the model validator
\* stripped to nothing, one of a character the sanitizer removes, one that is
\* too long, a language that is not supported, and the same language twice.
RejectedRequests ==
    LET ok == [text |-> <<"H", "e", "l", "l", "o">>,
               source_lang |-> <<"E", "n", "g", "l", "i", "s", "h">>,
               target_lang |-> <<"G", "e", "r", "m", "a", "n">>,
               context |-> None, use_cache |-> TRUE]
    IN  {[ok EXCEPT !.text = <<>>],
         [ok EXCEPT !.text = <<ZWSP>>],
         [ok EXCEPT !.text = <<"H", "e", "l", "l", "o", " ", "w", "o", "r", "l", "d", "!">>],
         [ok EXCEPT !.source_lang = <<"K", "l", "i", "n", "g", "o", "n">>],
         [ok EXCEPT !.target_lang = <<"K", "l", "i", "n", "g", "o", "n">>],
         [ok EXCEPT !.target_lang = <<"E", "n", "g", "l", "i", "s", "h">>]}

\* The requests translate() is called with.
EndpointRequests == Requests \cup RejectedRequests

\* main.py, POST /translate. A request that sanitize_translation_request
\* rejects is answered with 422 before the store is named. For the others
\* `cache.generate_key(...)` is an attribute TranslationCache does not have;
\* the AttributeError is raised outside the try statement, leaves translate()
\* and is answered by global_exception_handler with status 500.
translate_endpoint(request) ==
    /\ hreq' = request
    /\ hcalls' = <<>>
    /\ IF sanitize_translation_request(request) # ""
       THEN /\ hres' = HTTPException("translate", 422, "Invalid input")
            /\ UNCHANGED storeVars
       ELSE /\ CacheAttributeError("generate_key")
            /\ hres' = [AnswerError("translate", "AttributeError") EXCEPT !.status = 500]
            /\ Raise("translate", "AttributeError")

(***************************************************************************)
(* _clean_response, called on its own                                      *)
(***************************************************************************)

\* The longest of the provider outputs made of every choice of characters.
CleanLen == 3

\* The characters those outputs are made of.
CleanAlphabet == {" ", "\n", "\"", "'", "a"}

\* A translation, then a separator, then a sentence that explains it.
ExplainedOutputs ==
    {t \o sep \o e :
        t \in {<<"h", "o", "u", "s", "e">>},
        sep \in {<<"\n", "\n">>, <<"\n">>, <<".", " ">>, <<",", " ">>},
        e \in {<<"T", "h", "e", " ", "t", "r", "a", "n", "s", "l", "a", "t", "i", "o", "n", " ", "i", "s", " ", "c", "o", "r", "r", "e", "c", "t", ".">>,
               <<"T", "h", "i", "s", " ", "m", "e", "a", "n", "s", " ", "a", " ", "b", "u", "i", "l", "d", "i", "n", "g", ".">>,
               <<"I", "t", " ", "r", "e", "f", "e", "r", "s", " ", "t", "o", " ", "a", " ", "b", "u", "i", "l", "d", "i", "n", "g", ".">>,
               <<"H", "a", "u", "s", " ", "t", "r", "a", "n", "s", "l", "a", "t", "e", "s", " ", "t", "o", " ", "h", "o", "u", "s", "e", ".">>}}

\* A translation the provider has put between quote characters.
QuotedOutputs ==
    {pad \o q \o t \o q \o pad :
        pad \in {<<>>, <<" ">>},
        q \in {<<"\"">>, <<"'">>},
        t \in {<<"H", "a", "l", "l", "o">>,
               <<" ", "H", "a", "l", "l", "o", " ">>,
               <<"\"", "H", "a", "l", "l", "o", "\"">>,
               <<"G", "u", "t", "e", "n", " ", "T", "a", "g">>}}

\* Outputs with reasoning markup (closed, left open, in upper case, over
\* several lines), with a filler before a quoted translation, of several
\* lines, and with a linking word.
StagedOutputs ==
    {<<"<", "t", "h", "i", "n", "k", ">", "r", "e", "a", "s", "o", "n", "i", "n", "g", "\n", "h", "o", "u", "s", "e">>,
     <<"h", "o", "u", "s", "e", "<", "t", "h", "i", "n", "k", ">", "w", "h", "y", "\n", "b", "e", "c", "a", "u", "s", "e">>,
     <<"<", "t", "h", "i", "n", "k", ">", "a", "\n", "b", "<", "/", "t", "h", "i", "n", "k", ">", "h", "o", "u", "s", "e">>,
     <<"<", "T", "H", "I", "N", "K", ">", "x", "<", "/", "T", "H", "I", "N", "K", ">", "h", "o", "u", "s", "e">>,
     <<"<", "t", "h", "i", "n", "k", ">", "o", "n", "l", "y">>,
     <<"<", "b", ">", "h", "o", "u", "s", "e", "<", "/", "b", ">">>,
     <<"<", "t", "h", "i", "n", "k", ">", "x", "<", "/", "t", "h", "i", "n", "k", ">">>,
     <<"I", "'", "l", "l", " ", "s", "a", "y", " ", "'", "H", "a", "l", "l", "o", "'">>,
     <<"S", "u", "r", "e", ",", " ", "'", "H", "a", "l", "l", "o", "'">>,
     <<"S", "u", "r", "e", ",", " ", "H", "a", "l", "l", "o">>,
     <<"S", "u", "r", "e", ",", " ", "'", "H", "a", "l", "l", "o", " ", "H", "a", "l", "l", "o", " ", "H", "a", "l", "l", "o", "'">>,
     <<"O", "k", "a", "y", " ", "'", "H", "a", "l", "l", "o", "'", " ", "o", "r", " ", "'", "H", "i", "'">>,
     <<"l", "e", "t", " ", "m", "e", " ", "s", "a", "y", " ", "\"", "H", "a", "l", "l", "o", "\"">>,
     <<"T", "r", "a", "n", "s", "l", "a", "t", "i", "o", "n", ":", "\n", "h", "o", "u", "s", "e">>,
     <<"N", "o", "t", "e", ":", " ", "x", "\n", "h", "o", "u", "s", "e">>,
     <<"N", "o", "t", "e", ":", " ", "a", "\n", "N", "o", "t", "e", ":", " ", "b">>,
     <<"h", "o", "u", "s", "e", "\n", "h", "o", "m", "e">>,
     <<"h", "o", "u", "s", "e", "\n", "\n", "h", "o", "m", "e">>,
     <<"T", "h", "i", "s", " ", "m", "e", "a", "n", "s", " ", "h", "o", "u", "s", "e">>,
     <<"R", "e", "f", "e", "r", "s", " ", "t", "o", " ", "a", " ", "h", "o", "u", "s", "e">>,
     <<"h", "o", "u", "s", "e", " ", "t", "r", "a", "n", "s", "l", "a", "t", "e", "s", " ", "t", "o", " ", "H", "a", "u", "s">>,
     <<"h", "o", "u", "s", "e", " ", "i", "s", " ", "H", "a", "u", "s">>,
     <<"T", "h", "e", " ", "t", "r", "a", "n", "s", "l", "a", "t", "i", "o", "n", " ", "i", "s", " ", "h", "o", "u", "s", "e">>}

\* response_text: data["choices"][0]["message"]["content"].
ProviderOutputs ==
    Str(CleanAlphabet, CleanLen) \cup Contents \cup ExplainedOutputs \cup QuotedOutputs
        \cup StagedOutputs

\* original_text: the text translate() was given.
OriginalTexts ==
    {<<"H", "e", "l", "l", "o">>,
     <<"\"", "H", "e", "l", "l", "o", "\"">>,
     <<"'", "H", "e", "l", "l", "o", "'">>,
     <<"H", "a", "u", "s">>}

InitClean ==
    /\ nraw \in ProviderOutputs
    /\ norig \in OriginalTexts
    /\ nout = NotCleaned

\* `return self._clean_response(translation_text, text)`
CleanResponse ==
    /\ nout = NotCleaned
    /\ nout' = _clean_response(nraw, norig)
    /\ UNCHANGED <<nraw, norig>>

(***************************************************************************)
(* The two programs: main.py's lifespan and the native host's run()        *)
(***************************************************************************)

\* A message of the extension: a JSON object with an action and a payload,
\* or JSON of another kind (dict is FALSE).
Message(action, payload) == [dict |-> TRUE, action |-> action, payload |-> payload]

NoMessage == [dict |-> FALSE, action |-> "", payload |-> NoPayload]

\* The arguments each program constructs its TranslationCache with.
CacheArguments(program) ==
    IF program = "server"
    THEN <<"config.cache.path", "config.cache.max_size_mb">>
    ELSE <<"config.cache.path">>

\* A process is started: uvicorn enters lifespan(), or main() runs run(). The
\* store of the process that ended holds no connection.
Start(program) ==
    /\ life.phase \in {"down", "failed", "stopped"}
    /\ life' = [program |-> program, phase |-> "starting", error |-> "",
                sweeps |-> 0, served |-> FALSE, message |-> NoMessage, io |-> <<>>]
    /\ UNCHANGED <<storeVars, serveVars, tasks>>

\* `TranslationCache(...)`: __init__(self, db_path) takes one argument, and a
\* call with more raises TypeError, which ends the startup.
construct_cache ==
    /\ life.phase = "starting"
    /\ life' = IF Len(CacheArguments(life.program)) > Len(<<"db_path">>)
               THEN [life EXCEPT !.phase = "failed", !.error = "TypeError"]
               ELSE [life EXCEPT !.phase = "constructed"]
    /\ UNCHANGED <<storeVars, serveVars, tasks>>

\* `await cache.initialize()`
startup_initialize ==
    /\ life.phase = "constructed"
    /\ initialize
    /\ life' = [life EXCEPT !.phase = "initialized"]
    /\ UNCHANGED <<serveVars, tasks>>

\* `await cache.clear_expired(config.cache.ttl_days)`, after which the
\* clients are constructed and the process serves.
startup_clear_expired(ttl_days) ==
    /\ life.phase = "initialized"
    /\ clear_expired(ttl_days)
    /\ life' = [life EXCEPT !.phase = "serving", !.sweeps = life.sweeps + 1]
    /\ UNCHANGED <<serveVars, tasks>>

\* The loop of run(): a translate message is read, handled and answered.
serve_translate(payload, out) ==
    /\ life.phase = "serving"
    /\ life.program = "host"
    /\ handle_translate(payload, out)
    /\ life' = [life EXCEPT !.served = TRUE]
    /\ UNCHANGED tasks

\* No more messages (or the shutdown of the server): `await cache.close()`.
shutdown ==
    /\ life.phase = "serving"
    /\ close
    /\ life' = [life EXCEPT !.phase = "stopped"]
    /\ UNCHANGED <<serveVars, tasks>>

(***************************************************************************)
(* The native host's loop: read_message, handle_message, send_message      *)
(***************************************************************************)

\* The most messages the extension sends to one host.
MaxMessages == 2

\* What read_message returns: translate requests, the three other actions,
\* an action the host does not know, and JSON that is no object.
Messages ==
    {Message("translate", p) : p \in Payloads}
        \cup {Message(a, NoPayload) : a \in {"getLanguages", "health", "clearCache", "ping"}}
        \cup {NoMessage}

\* The actions handle_message has a branch for.
HandledActions == {"translate", "getLanguages", "health", "clearCache"}

\* The messages read and the responses sent, in their order.
Reads(io) == Len(SelectSeq(io, LAMBDA e : e = "read"))

\* `message = self.read_message()` returns a message.
read_message(message) ==
    /\ life.program = "host"
    /\ life.phase = "serving"
    /\ Reads(life.io) < MaxMessages
    /\ life' = [life EXCEPT !.phase = "handling", !.message = message,
                            !.io = Append(@, "read")]
    /\ UNCHANGED <<storeVars, serveVars, tasks>>

\* read_message raises (the bytes are no JSON): run() catches the
\* exception, sends {"error": "Fatal error: ..."} and goes to its finally.
read_fails ==
    /\ life.program = "host"
    /\ life.phase = "serving"
    /\ life' = [life EXCEPT !.phase = "ending", !.error = "JSONDecodeError",
                            !.io = Append(@, "fatal")]
    /\ UNCHANGED <<storeVars, serveVars, tasks>>

\* A bug handle_message could have: no try statement around the handlers,
\* whose exceptions then leave handle_message and are fatal to run().
ResponseWithoutTry(known, raised) ==
    IF ~known THEN "error" ELSE IF raised THEN "fatal" ELSE "result"

\* What handle_message returns: {"error": "Unknown action: ..."},
\* {"error": str(e)} from `except Exception as e`, or {"result": result}.
ResponseOf(known, raised) ==
    IF ~known THEN "error" ELSE IF raised THEN "error" ELSE "result"

\* What run() does with the response handle_message returned, or with the
\* exception that left it: the response is sent and the loop goes on, or
\* the fatal error is sent and the loop is left.
Respond(response) ==
    life' = [life EXCEPT !.phase = IF response = "fatal" THEN "ending" ELSE "serving",
                         !.error = IF response = "fatal" THEN "Fatal error" ELSE @,
                         !.served = TRUE,
                         !.io = Append(@, response)]

\* `response = await self.handle_message(message)` and
\* `self.send_message(response)`. out is what llm_client.translate does if
\* it is awaited. message.get of JSON that is no object raises
\* AttributeError before the try statement.
handle_message(out) ==
    /\ life.phase = "handling"
    /\ UNCHANGED tasks
    /\ LET message == life.message
       IN  IF ~message.dict
           THEN /\ Respond("fatal")
                /\ UNCHANGED <<storeVars, serveVars>>
           ELSE IF message.action = "translate"
           THEN /\ handle_translate(message.payload, out)
                /\ Respond(ResponseOf(TRUE, hres'.kind = "error"))
           ELSE IF message.action = "clearCache"
           THEN /\ handle_clear_cache
                /\ Respond(ResponseOf(TRUE, ret'.err # ""))
                /\ UNCHANGED serveVars
           ELSE /\ Respond(ResponseOf(message.action \in HandledActions, FALSE))
                /\ UNCHANGED <<storeVars, serveVars>>

\* The finally of run(), after a fatal error: `await self.cache.close()`.
run_finally ==
    /\ life.phase = "ending"
    /\ close
    /\ life' = [life EXCEPT !.phase = "stopped"]
    /\ UNCHANGED <<serveVars, tasks>>

(***************************************************************************)
(* POST /translate, several requests at a time                             *)
(***************************************************************************)

\* The most requests the server holds at a time.
MaxTasks == 3

\* What llm_client.translate does if translate() awaits it: it returns a
\* translation, or raises the ValueError of a failed translation or the
\* error of a connection that could not be made.
ProviderOutcomes ==
    {Returned(v) : v \in Translations}
        \cup {Raised(Exception("ValueError", "Translation failed after 3 attempts")),
              Raised(Exception("ConnectError", "All connection attempts failed"))}

\* llm is what the provider does for the request if it is asked.
NoTask == [pc |-> "none", request |-> NoPayload, llm |-> NoOutcome, answer |-> NoAnswer]

\* A request arrives and its handler is scheduled.
Arrive(i, request, out) ==
    /\ tasks[i].pc = "none"
    /\ tasks' = [tasks EXCEPT ![i] = [NoTask EXCEPT !.pc = "scheduled",
                                                    !.request = request,
                                                    !.llm = out]]
    /\ UNCHANGED <<storeVars, serveVars, life>>

\* The event loop runs the handler of request i: translate() raises before
\* its first await, so that it runs to its end in one step.
translate_task(i) ==
    /\ tasks[i].pc = "scheduled"
    /\ translate_endpoint(tasks[i].request)
    /\ tasks' = [tasks EXCEPT ![i].pc = "done", ![i].answer = hres']
    /\ UNCHANGED life

(***************************************************************************)
(* The translate flow: handle_translate over an OpenAICompatibleClient     *)
(***************************************************************************)

\* handle_translate gets as far as `await self.llm_client.translate(...)`:
\* the fields are there, and the cache is off or has no entry for the key.
AwaitsProvider(payload) ==
    /\ ~(Falsy(payload.text) \/ Falsy(payload.source_lang) \/ Falsy(payload.target_lang))
    /\ ~(payload.use_cache /\ NotInitialized)
    /\ ~(payload.use_cache /\
            ~Falsy(SelectTranslation(rows, _generate_key(payload.text, payload.source_lang,
                                                        payload.target_lang, payload.context))))

\* What `await client.translate(...)` raises when the call of
\* the client ends with r.
RaisedByClient(r) == Exception(r.exc, r.msg)

\* The host handles a message and the handler awaits the client.
InFlight == hreq # NoPayload /\ hres = NoAnswer

\* What `await self.llm_client.translate(...)` gives the handler when the
\* call of the client has ended with r.
AwaitedOutcome(r) ==
    IF r.kind = "return" THEN Returned(r.value) ELSE Raised(RaisedByClient(r))

\* A translate message that is answered without the provider.
FlowAnswers(payload) ==
    /\ ~InFlight
    /\ ~AwaitsProvider(payload)
    /\ handle_translate(payload, NoOutcome)
    /\ UNCHANGED clientVars

\* A translate message for which the handler calls the client, whose loop
\* starts.
FlowCalls(payload) ==
    /\ ~InFlight
    /\ AwaitsProvider(payload)
    /\ translate(payload.text)
    /\ hreq' = payload
    /\ hcalls' = <<TranslateArgs(payload)>>
    /\ hres' = NoAnswer
    /\ UNCHANGED storeVars

\* The call of the client has ended: the handler goes on with what it gave,
\* and the message is answered.
FlowResumes ==
    /\ InFlight
    /\ cpc \in {"returned", "raised"}
    /\ handle_translate(hreq, AwaitedOutcome(cresult))
    /\ UNCHANGED clientVars

(***************************************************************************)
(* The specifications: each runs one component and leaves the others as    *)
(* constructed.                                                            *)
(***************************************************************************)

RestKey ==
    /\ kreq = [text |-> <<>>, source_lang |-> <<>>, target_lang |-> <<>>]
    /\ kkeys = NoKeys
    /\ kstable = TRUE

RestStore ==
    /\ db = "None"
    /\ conn = "none"
    /\ overclosed = FALSE
    /\ file = FALSE
    /\ version = {}
    /\ rows = NoRows
    /\ now = 0
    /\ ticks = 0
    /\ ret = NoRet
    /\ lastSet = NoRows
    /\ expired = {}

RestRouter ==
    /\ fallback = "None"
    /\ rpc = "idle"
    /\ rargs = [text |-> <<>>, source_lang |-> "", target_lang |-> "", context |-> None]
    /\ rcalls = <<>>
    /\ primary_error = NoException
    /\ rresult = NoOutcome

RestClean ==
    /\ nraw = <<>>
    /\ norig = <<>>
    /\ nout = NotCleaned

RestServe ==
    /\ hreq = NoPayload
    /\ hcalls = <<>>
    /\ hres = NoAnswer

\* No process has been started, and the server holds no request.
RestApp ==
    /\ life = [program |-> "none", phase |-> "down", error |-> "",
               sweeps |-> 0, served |-> FALSE, message |-> NoMessage, io |-> <<>>]
    /\ tasks = [i \in 1..MaxTasks |-> NoTask]

InitSpecKey ==
    InitKey /\ RestStore /\ InitClient /\ RestRouter /\ RestClean /\ RestServe /\ RestApp

NextKey ==
    \/ \E c \in OptKeyStr : DeriveKey(c) /\ UNCHANGED <<storeVars, clientVars, routerVars, cleanVars, serveVars, appVars>>
    \/ \E c \in OptKeyStr : DeriveKeyAgain(c) /\ UNCHANGED <<storeVars, clientVars, routerVars, cleanVars, serveVars, appVars>>

SpecKey == InitSpecKey /\ [][NextKey]_vars

InitSpecStore ==
    RestKey /\ InitStore /\ InitClient /\ RestRouter /\ RestClean /\ RestServe /\ RestApp

NextStore ==
    \/ initialize /\ UNCHANGED <<keyVars, clientVars, routerVars, cleanVars, serveVars, appVars>>
    \/ \E key \in Keys : get(key) /\ UNCHANGED <<keyVars, clientVars, routerVars, cleanVars, serveVars, appVars>>
    \/ \E key \in Keys, a \in SetArgs, translation \in Translations :
          set(key, a[1], a[2], a[3], translation) /\ UNCHANGED <<keyVars, clientVars, routerVars, cleanVars, serveVars, appVars>>
    \/ \E ttl_days \in 1..MaxTtl :
          clear_expired(ttl_days) /\ UNCHANGED <<keyVars, clientVars, routerVars, cleanVars, serveVars, appVars>>
    \/ get_size /\ UNCHANGED <<keyVars, clientVars, routerVars, cleanVars, serveVars, appVars>>
    \/ close /\ UNCHANGED <<keyVars, clientVars, routerVars, cleanVars, serveVars, appVars>>
    \/ crash /\ UNCHANGED <<keyVars, clientVars, routerVars, cleanVars, serveVars, appVars>>
    \/ clear_cache /\ UNCHANGED <<keyVars, clientVars, routerVars, cleanVars, serveVars, appVars>>
    \/ handle_clear_cache /\ UNCHANGED <<keyVars, clientVars, routerVars, cleanVars, serveVars, appVars>>
    \/ Tick /\ UNCHANGED <<keyVars, clientVars, routerVars, cleanVars, serveVars, appVars>>

SpecStore == InitSpecStore /\ [][NextStore]_vars

InitSpecClient ==
    RestKey /\ RestStore /\ InitClient /\ RestRouter /\ RestClean /\ RestServe /\ RestApp

NextClient ==
    \/ \E text \in ClientTexts : translate(text) /\ UNCHANGED <<keyVars, storeVars, routerVars, cleanVars, serveVars, appVars>>
    \/ \E e \in PostFailures : PostFails(e) /\ UNCHANGED <<keyVars, storeVars, routerVars, cleanVars, serveVars, appVars>>
    \/ \E content \in Contents : PostAnswered(content) /\ UNCHANGED <<keyVars, storeVars, routerVars, cleanVars, serveVars, appVars>>
    \/ BackoffOver /\ UNCHANGED <<keyVars, storeVars, routerVars, cleanVars, serveVars, appVars>>

SpecClient == InitSpecClient /\ [][NextClient]_vars

InitSpecRouter ==
    RestKey /\ RestStore /\ InitClient /\ InitRouter /\ RestClean /\ RestServe /\ RestApp

NextRouter ==
    \/ \E args \in RouterArgs :
          FallbackLLMClient_translate(args)
          /\ UNCHANGED <<keyVars, storeVars, clientVars, cleanVars, serveVars, appVars>>
    \/ \E value \in Translations :
          PrimaryReturns(value)
          /\ UNCHANGED <<keyVars, storeVars, clientVars, cleanVars, serveVars, appVars>>
    \/ \E e \in ClientFailures :
          PrimaryRaises(e)
          /\ UNCHANGED <<keyVars, storeVars, clientVars, cleanVars, serveVars, appVars>>
    \/ \E value \in Translations :
          FallbackReturns(value)
          /\ UNCHANGED <<keyVars, storeVars, clientVars, cleanVars, serveVars, appVars>>
    \/ \E f \in ClientFailures :
          FallbackRaises(f)
          /\ UNCHANGED <<keyVars, storeVars, clientVars, cleanVars, serveVars, appVars>>

SpecRouter == InitSpecRouter /\ [][NextRouter]_vars

\* The router over two OpenAICompatibleClients: the call in flight is the
\* newest of rcalls, and the variables of the client are those of that call.
InitSpecRouted ==
    RestKey /\ RestStore /\ InitClient /\ InitRouter /\ RestClean /\ RestServe /\ RestApp

\* The steps of a routed request that is in flight: those of the client
\* awaited, and those of the router when the client has ended.
RoutedStep ==
    \/ \E e \in PostFailures :
          PostFails(e)
          /\ UNCHANGED <<keyVars, storeVars, routerVars, cleanVars, serveVars, appVars>>
    \/ \E content \in Contents :
          PostAnswered(content)
          /\ UNCHANGED <<keyVars, storeVars, routerVars, cleanVars, serveVars, appVars>>
    \/ BackoffOver
          /\ UNCHANGED <<keyVars, storeVars, routerVars, cleanVars, serveVars, appVars>>
    \/ /\ cpc = "returned"
       /\ PrimaryReturns(cresult.value)
       /\ UNCHANGED <<keyVars, storeVars, clientVars, cleanVars, serveVars, appVars>>
    \/ /\ cpc = "raised"
       /\ PrimaryRaises(RaisedByClient(cresult))
       /\ IF fallback # "None"
          THEN translate(FallbackArgs(rargs).text)
          ELSE UNCHANGED clientVars
       /\ UNCHANGED <<keyVars, storeVars, cleanVars, serveVars, appVars>>
    \/ /\ cpc = "returned"
       /\ FallbackReturns(cresult.value)
       /\ UNCHANGED <<keyVars, storeVars, clientVars, cleanVars, serveVars, appVars>>
    \/ /\ cpc = "raised"
       /\ FallbackRaises(RaisedByClient(cresult))
       /\ UNCHANGED <<keyVars, storeVars, clientVars, cleanVars, serveVars, appVars>>

NextRouted ==
    \/ \E args \in RouterArgs :
          FallbackLLMClient_translate(args) /\ translate(args.text)
          /\ UNCHANGED <<keyVars, storeVars, cleanVars, serveVars, appVars>>
    \/ RoutedStep

\* Every provider request ends (the client has a timeout), every
\* asyncio.sleep ends, and a coroutine that can run is run.
SpecRouted == InitSpecRouted /\ [][NextRouted]_vars /\ WF_vars(RoutedStep)

InitSpecServe ==
    RestKey /\ InitServe /\ InitClient /\ RestRouter /\ RestClean /\ RestApp

NextServe ==
    \/ \E request \in EndpointRequests :
          translate_endpoint(request)
          /\ UNCHANGED <<keyVars, clientVars, routerVars, cleanVars, appVars>>
    \/ \E payload \in Payloads, out \in LLMOutcomes :
          handle_translate(payload, out)
          /\ UNCHANGED <<keyVars, clientVars, routerVars, cleanVars, appVars>>
    \/ \E ttl_days \in 1..MaxTtl :
          clear_expired(ttl_days)
          /\ UNCHANGED <<keyVars, clientVars, routerVars, cleanVars, serveVars, appVars>>
    \/ Tick /\ UNCHANGED <<keyVars, clientVars, routerVars, cleanVars, serveVars, appVars>>

SpecServe == InitSpecServe /\ [][NextServe]_vars

\* The processes that run one after another on one cache path.
InitSpecLife ==
    RestKey /\ InitStore /\ InitClient /\ RestRouter /\ RestClean /\ RestServe /\ RestApp

NextLife ==
    \/ \E program \in {"server", "host"} :
          Start(program)
          /\ UNCHANGED <<keyVars, clientVars, routerVars, cleanVars>>
    \/ construct_cache
          /\ UNCHANGED <<keyVars, clientVars, routerVars, cleanVars>>
    \/ startup_initialize
          /\ UNCHANGED <<keyVars, clientVars, routerVars, cleanVars>>
    \/ \E ttl_days \in 1..MaxTtl :
          startup_clear_expired(ttl_days)
          /\ UNCHANGED <<keyVars, clientVars, routerVars, cleanVars>>
    \/ \E payload \in Requests, out \in LLMOutcomes :
          serve_translate(payload, out)
          /\ UNCHANGED <<keyVars, clientVars, routerVars, cleanVars>>
    \/ shutdown
          /\ UNCHANGED <<keyVars, clientVars, routerVars, cleanVars>>
    \/ Tick /\ UNCHANGED <<keyVars, clientVars, routerVars, cleanVars, serveVars, appVars>>

SpecLife == InitSpecLife /\ [][NextLife]_vars

\* The server with its store open, as the tests of the endpoints set it up.
InitSpecRace ==
    RestKey /\ InitServe /\ InitClient /\ RestRouter /\ RestClean /\ RestApp

NextRace ==
    \/ \E i \in 1..MaxTasks, request \in Requests, out \in ProviderOutcomes :
          Arrive(i, request, out)
          /\ UNCHANGED <<keyVars, clientVars, routerVars, cleanVars>>
    \/ \E i \in 1..MaxTasks :
          translate_task(i)
          /\ UNCHANGED <<keyVars, clientVars, routerVars, cleanVars>>

SpecRace == InitSpecRace /\ [][NextRace]_vars

\* The native host with its store open and a client of its own.
InitSpecFlow ==
    RestKey /\ InitServe /\ InitClient /\ RestRouter /\ RestClean /\ RestApp

NextFlow ==
    \/ \E payload \in Payloads :
          FlowAnswers(payload)
          /\ UNCHANGED <<keyVars, routerVars, cleanVars, appVars>>
    \/ \E payload \in Payloads :
          FlowCalls(payload)
          /\ UNCHANGED <<keyVars, routerVars, cleanVars, appVars>>
    \/ \E e \in PostFailures :
          InFlight /\ PostFails(e)
          /\ UNCHANGED <<keyVars, storeVars, routerVars, cleanVars, serveVars, appVars>>
    \/ \E content \in Contents :
          InFlight /\ PostAnswered(content)
          /\ UNCHANGED <<keyVars, storeVars, routerVars, cleanVars, serveVars, appVars>>
    \/ InFlight /\ BackoffOver
          /\ UNCHANGED <<keyVars, storeVars, routerVars, cleanVars, serveVars, appVars>>
    \/ FlowResumes
          /\ UNCHANGED <<keyVars, routerVars, cleanVars, appVars>>

SpecFlow == InitSpecFlow /\ [][NextFlow]_vars

\* The native host after initialize(): its store is open and swept, and
\* no message has been read.
InitSpecHost ==
    /\ RestKey /\ InitServe /\ InitClient /\ RestRouter /\ RestClean
    /\ life = [program |-> "host", phase |-> "serving", error |-> "", sweeps |-> 1,
               served |-> FALSE, message |-> NoMessage, io |-> <<>>]
    /\ tasks = [i \in 1..MaxTasks |-> NoTask]

\* The steps of a message that was read, and of the end of run().
HostStep ==
    \/ \E out \in ProviderOutcomes :
          handle_message(out)
          /\ UNCHANGED <<keyVars, clientVars, routerVars, cleanVars>>
    \/ run_finally
          /\ UNCHANGED <<keyVars, clientVars, routerVars, cleanVars>>

NextHost ==
    \/ \E message \in Messages :
          read_message(message)
          /\ UNCHANGED <<keyVars, clientVars, routerVars, cleanVars>>
    \/ read_fails
          /\ UNCHANGED <<keyVars, clientVars, routerVars, cleanVars>>
    \/ shutdown
          /\ UNCHANGED <<keyVars, clientVars, routerVars, cleanVars>>
    \/ HostStep

\* The call of the provider ends (the client has a timeout and three
\* attempts), and a coroutine that can run is run.
SpecHost == InitSpecHost /\ [][NextHost]_vars /\ WF_vars(HostStep)

InitSpecClean ==
    RestKey /\ RestStore /\ InitClient /\ RestRouter /\ InitClean /\ RestServe /\ RestApp

NextClean ==
    \/ CleanResponse
       /\ UNCHANGED <<keyVars, storeVars, clientVars, routerVars, serveVars, appVars>>

SpecClean == InitSpecClean /\ [][NextClean]_vars

(***************************************************************************)
(* The key: C1, C2                                                         *)
(***************************************************************************)

\* C1: for every (text, source_lang, target_lang) the key derived with
\* context "" is the key derived with context None, and a repeated call with
\* the same inputs returns the key the first call returned.
C1_EmptyContextIsNoContext ==
    /\ (None \in DOMAIN kkeys /\ <<>> \in DOMAIN kkeys) => kkeys[None] = kkeys[<<>>]
    /\ kstable

\* Both keys of a request with a non-empty text have been derived, and so has
\* the key of a non-empty context, which is another key.
C1_Witness ==
    /\ kreq.text # <<>>
    /\ {None, <<>>, <<"a">>} \subseteq DOMAIN kkeys
    /\ kkeys[<<"a">>] # kkeys[None]

\* C2: any two input tuples that differ in text, source language, target
\* language or (normalized) context have different keys, the inputs that
\* contain the delimiter included.
C2_DistinctInputsDistinctKeys ==
    \A c \in DOMAIN kkeys : \A r \in KeyRequests, d \in OptKeyStr :
        (r # kreq \/ OrEmpty(d) # OrEmpty(c)) => KeyOf(r, d) # kkeys[c]

(***************************************************************************)
(* The store: C3 .. C8                                                     *)
(***************************************************************************)

\* C3: on an initialized store the row of a key is exactly what the newest
\* set of that key wrote (text, languages, translation, timestamp = the time
\* of that set), whether the key was absent or present, and get returns the
\* translation of that set.
C3_LastWriteWins ==
    /\ \A k \in DOMAIN lastSet : k \in DOMAIN rows /\ rows[k] = lastSet[k]
    /\ (ret.op = "set" /\ ret.err = "") =>
          /\ rows[ret.key].translation = ret.val
          /\ rows[ret.key].timestamp = now
          /\ \A k \in DOMAIN ret.rows0 \ {ret.key} :
                k \in DOMAIN rows /\ rows[k] = ret.rows0[k]
    /\ (ret.op = "get" /\ ret.err = "" /\ ret.key \in DOMAIN lastSet) =>
          ret.val = lastSet[ret.key].translation

\* A set has just overwritten a row that held another text, another
\* translation and an older timestamp.
C3_Witness ==
    /\ ret.op = "set" /\ ret.err = ""
    /\ ret.key \in DOMAIN ret.rows0
    /\ ret.rows0[ret.key].translation # rows[ret.key].translation
    /\ ret.rows0[ret.key].text # rows[ret.key].text
    /\ ret.rows0[ret.key].timestamp < rows[ret.key].timestamp

\* C4: on an initialized store, get of a key never written, or deleted since
\* it was written, returns None without an error, and changes no entry.
C4_MissReturnsNone ==
    (ret.op = "get" /\ ret.db0 # "None") =>
        /\ ret.err = ""
        /\ rows = ret.rows0
        /\ (ret.key \notin DOMAIN lastSet => ret.val = None)

\* A get has just missed a key that was written and then deleted as expired,
\* in a store that holds another key.
C4_Witness ==
    /\ ret.op = "get" /\ ret.err = "" /\ ret.val = None
    /\ ret.key \in expired
    /\ rows # NoRows

\* C5: clear_expired(ttl_days) deletes exactly the rows whose timestamp is
\* less than now - ttl_days * 86400 and leaves every other row as it was (a
\* row whose timestamp is the cutoff stays); a get then returns None for a
\* deleted key and the stored translation for a retained one.
C5_ClearExpiredExact ==
    (ret.op = "clear_expired" /\ ret.err = "") =>
        LET cutoff == now - ret.ttl * 86400
            kept == {k \in DOMAIN ret.rows0 : ret.rows0[k].timestamp >= cutoff}
        IN  /\ rows = Restrict(ret.rows0, kept)
            /\ \A k \in Keys :
                  SelectTranslation(rows, k) =
                      IF k \in kept THEN ret.rows0[k].translation ELSE None

\* clear_expired has just deleted one row and kept one whose timestamp is the
\* cutoff.
C5_Witness ==
    /\ ret.op = "clear_expired" /\ ret.err = ""
    /\ \E k \in DOMAIN ret.rows0 : k \notin DOMAIN rows
    /\ \E k \in DOMAIN rows : rows[k].timestamp = now - ret.ttl * 86400

StoreOperations ==
    {"get", "set", "clear_expired", "get_size", "clear_cache", "handle_clear_cache"}

\* C6 as claimed: every one of get, set, clear_expired, get_size and clear,
\* called on a store that is not initialized, fails with an error and leaves
\* the persisted state as it was.
C6_EveryOperationFailsFast ==
    (ret.op \in StoreOperations /\ ret.db0 = "None") =>
        /\ ret.err # ""
        /\ rows = ret.rows0 /\ version = ret.version0

\* C6, amended: get, set and clear_expired called on a store that is not
\* initialized raise RuntimeError, a call of clear raises too, and none of
\* them changes the persisted state; get_size raises nothing and answers with
\* the size of the file, 0 when there is none.
C6_DbOperationsFailFast ==
    /\ (ret.op \in {"get", "set", "clear_expired"} /\ ret.db0 = "None") =>
          ret.err = "RuntimeError" /\ ret.val = None
    /\ (ret.op \in StoreOperations /\ ret.db0 = "None") =>
          /\ ret.op # "get_size" => ret.err # ""
          /\ rows = ret.rows0 /\ version = ret.version0
    /\ ret.op = "get_size" => ret.err = "" /\ (ret.size = 0 <=> ~file)

\* A set has just been refused by a store that was closed with a row in it.
C6_Witness ==
    /\ ret.op = "set" /\ ret.db0 = "None" /\ ret.err = "RuntimeError"
    /\ rows # NoRows
    /\ conn = "closed"

\* C7: close() raises nothing and leaves the store without a connection and
\* its entries as they were; on a store that is closed already, or was never
\* initialized, it changes nothing, and no connection is closed twice.
C7_CloseIdempotent ==
    /\ ~overclosed
    /\ ret.op = "close" =>
          /\ ret.err = ""
          /\ db = "None"
          /\ conn # "open"
          /\ rows = ret.rows0 /\ version = ret.version0

\* close() has just been called on a store that an earlier close() closed.
C7_Witness ==
    /\ ret.op = "close" /\ ret.db0 = "None"
    /\ conn = "closed"
    /\ rows # NoRows

\* C8: after the clear_cache endpoint or the native host's clearCache action
\* has called clear(), the store holds no entry: get returns None for every
\* key.
C8_ClearRemovesEverything ==
    ret.op \in {"clear_cache", "handle_clear_cache"} =>
        /\ ret.err = ""
        /\ \A k \in Keys : SelectTranslation(rows, k) = None

(***************************************************************************)
(* The inference client: C9, C10                                           *)
(***************************************************************************)

Finished == cpc \in {"returned", "raised"}

\* C9: a call every request of which times out makes exactly 3 requests and
\* then raises the "failed after 3 attempts" ValueError (ExhaustedRetries)
\* from the third timeout; no call makes a fourth request.
C9_ThreeTimeoutsExhaust ==
    /\ Len(posts) <= 3
    /\ (Finished /\ \A i \in 1..Len(posts) : posts[i] = "TimeoutException") =>
          /\ Len(posts) = 3
          /\ cresult.kind = "raise" /\ cresult.exc = "ValueError"
          /\ cresult.msg = "Translation failed after 3 attempts"
          /\ cresult.cause = [kind |-> "TimeoutException", attempt |-> 2]
    /\ cresult.msg = "Translation failed after 3 attempts" =>
          posts = <<"TimeoutException", "TimeoutException", "TimeoutException">>

\* A call has ended after three timeouts.
C9_Witness ==
    /\ cpc = "raised"
    /\ posts = <<"TimeoutException", "TimeoutException", "TimeoutException">>

\* C10: a request answered with an HTTP error status is the last request of
\* its call, at whatever attempt: the call raises the "server returned error"
\* ValueError (ProviderError) from that error at once, and no wait follows it.
C10_HttpErrorIsTerminal ==
    \A i \in 1..Len(posts) :
        posts[i] = "HTTPStatusError" =>
            /\ i = Len(posts)
            /\ cpc = "raised"
            /\ cresult.kind = "raise" /\ cresult.exc = "ValueError"
            /\ cresult.msg = "LLM server returned error"
            /\ cresult.cause = [kind |-> "HTTPStatusError", attempt |-> i - 1]
            /\ Len(sleeps) = i - 1

\* A call has ended with an HTTP error status at its second request, after one
\* timeout and one wait.
C10_Witness ==
    /\ cpc = "raised"
    /\ posts = <<"TimeoutException", "HTTPStatusError">>
    /\ sleeps = <<1>>

(***************************************************************************)
(* The fallback router: C11 .. C13                                         *)
(***************************************************************************)

\* C11: when the primary fails and a fallback is configured, the fallback is
\* called exactly once, second, with the arguments translate() was given, and
\* what the fallback returns is returned; when the primary returns, no
\* second call is made and what the primary returned is returned.
C11_FallbackOnPrimaryFailure ==
    /\ Len(rcalls) <= 2
    /\ \A i \in 1..Len(rcalls) :
          rcalls[i].to = "fallback" =>
             i = 2 /\ fallback # "None" /\ rcalls[1].out.kind = "raise"
    /\ (rcalls # <<>> /\ rcalls[1].out.kind = "raise" /\ fallback # "None") =>
          /\ Len(rcalls) = 2
          /\ rcalls[2].to = "fallback"
          /\ rcalls[2].args = rargs
          /\ rcalls[2].out.kind = "return" =>
                rpc = "returned" /\ rresult = rcalls[2].out
    /\ (rcalls # <<>> /\ rcalls[1].out.kind = "return") =>
          /\ Len(rcalls) = 1
          /\ rcalls[1].to = "primary" /\ rcalls[1].args = rargs
          /\ rpc = "returned" /\ rresult = rcalls[1].out

\* The fallback has answered a call made with a context, after the primary
\* failed.
C11_Witness ==
    /\ rpc = "returned"
    /\ Len(rcalls) = 2
    /\ rcalls[1].out.kind = "raise"
    /\ rargs.context # None
    /\ rresult.value # <<>>

\* C12: when the primary and the fallback both fail, translate() raises one
\* ValueError whose message names the type of the primary's failure and the
\* type of the fallback's, whose cause is the fallback's failure, which in
\* turn has the primary's failure as its context.
C12_BothFailuresReported ==
    (Len(rcalls) = 2 /\ rcalls[2].out.kind = "raise") =>
        /\ rpc = "raised"
        /\ rresult.kind = "raise"
        /\ rresult.error.type = "ValueError"
        /\ rresult.error.msg =
              <<"Both primary and fallback LLMs failed",
                rcalls[1].out.error.type, rcalls[2].out.error.type>>
        /\ rresult.error.cause = rcalls[2].out.error
        /\ rresult.error.cause.context = rcalls[1].out.error

\* Both have failed, with failures of different types.
C12_Witness ==
    /\ rpc = "raised"
    /\ Len(rcalls) = 2
    /\ rcalls[1].out.error.type = "ConnectError"
    /\ rcalls[2].out.error.type = "ValueError"

\* C13: without a fallback, a failure of the primary is what translate()
\* raises, the very exception and nothing around it, and the primary is the
\* only client called.
C13_NoFallbackPropagates ==
    fallback = "None" =>
        /\ \A i \in 1..Len(rcalls) : i = 1 /\ rcalls[i].to = "primary"
        /\ (rcalls # <<>> /\ rcalls[1].out.kind = "raise") =>
              /\ rpc = "raised"
              /\ rresult = rcalls[1].out

\* The primary has failed where no fallback is configured.
C13_Witness ==
    /\ fallback = "None"
    /\ rpc = "raised"
    /\ rresult.error.type = "ConnectError"

(***************************************************************************)
(* The translate operation: C14                                            *)
(***************************************************************************)

\* C14: a translate request (one that does not opt out of the cache) whose
\* derived key the store holds is answered with the stored translation and
\* cached = true, without a provider call or a store write; any other is
\* answered by one provider call, and when that call returns, its result is
\* stored under the derived key and answered with cached = false.
C14_CacheAside ==
    (hres.kind # "none" /\ hreq.text # None /\ hreq.use_cache) =>
        LET cache_key == _generate_key(hreq.text, hreq.source_lang,
                                       hreq.target_lang, hreq.context)
        IN  IF cache_key \in DOMAIN hres.rows0
            THEN /\ hres.kind = "result"
                 /\ hres.cached
                 /\ hres.translation = hres.rows0[cache_key].translation
                 /\ hcalls = <<>>
                 /\ rows = hres.rows0
            ELSE /\ Len(hcalls) = 1
                 /\ hcalls[1] = TranslateArgs(hreq)
                 /\ hres.kind = "result" =>
                       /\ ~hres.cached
                       /\ cache_key \in DOMAIN rows
                       /\ rows[cache_key].translation = hres.translation
                       /\ \A k \in DOMAIN hres.rows0 :
                             k \in DOMAIN rows /\ rows[k] = hres.rows0[k]

(***************************************************************************)
(* The normalizer: C15 .. C17                                              *)
(***************************************************************************)

Blank(s) == \A i \in 1..Len(s) : s[i] \in Whitespace

\* s is t with whitespace before and after it.
Padded(s, t) ==
    \E i \in 1..(Len(s) + 1) :
        /\ i + Len(t) - 1 <= Len(s)
        /\ SubSeq(s, i, i + Len(t) - 1) = t
        /\ Blank(SubSeq(s, 1, i - 1))
        /\ Blank(SubSeq(s, i + Len(t), Len(s)))

\* The messages of the ValueError that stands for EmptyOutput.
EmptyOutputs ==
    {"Empty response from LLM",
     "Empty response after removing thinking tags",
     "Response cleaning resulted in empty translation"}

\* Translations of one line with no markup, no quote and no explanation in
\* them.
PlainTranslations ==
    {<<"a">>, <<"a", "a">>, <<"a", " ", "a">>,
     <<"H", "a", "l", "l", "o">>, <<"b", "e", "n", "c", "h">>}

\* C15: _clean_response returns a string that is not empty and neither starts
\* nor ends with whitespace, or raises one of the EmptyOutput errors; a blank
\* response_text raises the first, one of which only markup is left the
\* second, and a translation padded with whitespace comes back as the
\* translation.
C15_NonEmptyTrimmedOrEmptyOutput ==
    nout # NotCleaned =>
        /\ nout.raised = "" =>
              /\ nout.text # <<>>
              /\ nout.text[1] \notin Whitespace
              /\ nout.text[Len(nout.text)] \notin Whitespace
        /\ nout.raised # "" => nout.raised \in EmptyOutputs
        /\ Blank(nraw) => nout.raised = "Empty response from LLM"
        /\ (~Blank(nraw) /\ Blank(RemoveTags(RemoveOpenThink(RemoveThinkSpans(nraw))))) =>
              nout.raised = "Empty response after removing thinking tags"
        /\ \A t \in PlainTranslations :
              Padded(nraw, t) => nout = Cleaned(t)

\* A response of which the quotes are all there is has been cleaned: the
\* last strip left nothing.
C15_Witness ==
    /\ nraw = <<" ", "\"", "\"">>
    /\ norig = <<"H", "e", "l", "l", "o">>
    /\ nout.raised = "Response cleaning resulted in empty translation"

\* s is wrapped as a whole in two double quotes or in two single quotes.
QuoteWrapped(s) == Len(s) >= 2 /\ s[1] \in QuoteChars /\ s[Len(s)] = s[1]

\* s with the whitespace at its two ends taken off.
Trimmed(s) ==
    LET inked == {i \in 1..Len(s) : s[i] \notin Whitespace}
    IN  IF inked = {} THEN <<>>
        ELSE SubSeq(s, Min(inked), CHOOSE j \in inked : \A i \in inked : i <= j)

\* s gives the other steps nothing to do: it has no markup, is of one line,
\* does not start with a filler and has no explanation pattern in it.
QuotesOnly(s) ==
    /\ \A i \in 1..Len(s) : s[i] \in AsciiLetters \cup QuoteChars \cup {" "}
    /\ ~HasVerbosePrefix(Trimmed(s))
    /\ ~MatchesExplanation(s)

\* C16: where the original text is not wrapped in quotes and the cleaned text
\* is, as a whole, in two double or two single quotes, one layer of them is
\* taken off (and what is left trimmed); where the original text is wrapped
\* in quotes, the cleaned text comes back with its quotes.
C16_QuoteSymmetry ==
    (nout # NotCleaned /\ QuotesOnly(nraw) /\ ~Blank(nraw)) =>
        LET cleaned == Trimmed(nraw)
            inner == Trimmed(SubSeq(cleaned, 2, Len(cleaned) - 1))
        IN  /\ (~QuoteWrapped(norig) /\ QuoteWrapped(cleaned)) =>
                  IF inner = <<>> THEN nout.raised \in EmptyOutputs
                  ELSE nout = Cleaned(inner)
            /\ QuoteWrapped(norig) => nout = Cleaned(cleaned)

\* The phrases the tests look for in a translation.
ReportedPhrases ==
    {<<"t", "h", "e", " ", "t", "r", "a", "n", "s", "l", "a", "t", "i", "o", "n">>,
     <<"t", "h", "i", "s", " ", "m", "e", "a", "n", "s">>,
     <<"r", "e", "f", "e", "r", "s", " ", "t", "o">>}

\* C17: of a translation followed by an explanation, on a later line or in a
\* later clause, _clean_response returns a string in which none of "the
\* translation", "this means" and "refers to" is found, in any case of
\* letters.
C17_ExplanationRemoved ==
    (nout # NotCleaned /\ nraw \in ExplainedOutputs) =>
        /\ nout.raised = ""
        /\ \A p \in ReportedPhrases : ~ISearch(nout.text, p)

(***************************************************************************)
(* The inference client: C18 .. C20                                        *)
(***************************************************************************)

\* The requests of this call that timed out and were not the last the loop
\* allows.
RetriedTimeouts ==
    {i \in 1..Len(posts) : posts[i] = "TimeoutException" /\ i < 3}

\* C18: every wait follows a timed-out request that is not the third, and
\* the wait after the request of 0-indexed attempt n is min(2^n, 8) seconds:
\* three timeouts make the waits 1 s and 2 s and no third, and no wait comes
\* before the first request or after a request that did not time out.
C18_BackoffBetweenTimeouts ==
    /\ Len(sleeps) = Cardinality(RetriedTimeouts)
    /\ \A i \in 1..Len(sleeps) :
          /\ i \in RetriedTimeouts
          /\ sleeps[i] = IF 2^(i - 1) < 8 THEN 2^(i - 1) ELSE 8
    /\ posts = <<"TimeoutException", "TimeoutException", "TimeoutException">> =>
          sleeps = <<1, 2>>
    /\ cpc = "sleep" => posts[Len(posts)] = "TimeoutException" /\ Len(posts) < 3

\* A call has returned at its third request, after two timeouts and the two
\* waits.
C18_Witness ==
    /\ cpc = "returned"
    /\ posts = <<"TimeoutException", "TimeoutException", "ok">>
    /\ sleeps = <<1, 2>>

\* C19: a response without choices, with an empty list of choices or
\* without message or content (the KeyError or IndexError of the subscripts)
\* is the last request of its call: the call raises the "response format is
\* invalid" ValueError (ProviderError) from that error, and no wait follows.
C19_MalformedPayloadIsTerminal ==
    \A i \in 1..Len(posts) :
        posts[i] \in {"KeyError", "IndexError"} =>
            /\ i = Len(posts)
            /\ cpc = "raised"
            /\ cresult.kind = "raise" /\ cresult.exc = "ValueError"
            /\ cresult.msg = "LLM response format is invalid"
            /\ cresult.cause = [kind |-> posts[i], attempt |-> i - 1]
            /\ Len(sleeps) = i - 1

\* A call has ended with an empty list of choices at its first request.
C19_Witness ==
    /\ cpc = "raised"
    /\ posts = <<"IndexError">>
    /\ sleeps = <<>>

\* C20: only a timeout is followed by another request: a transport failure
\* that is no timeout is the last request of its call, which raises that
\* failure itself, and no wait follows it.
C20_OnlyTimeoutsRetried ==
    /\ \A i \in 1..(Len(posts) - 1) : posts[i] = "TimeoutException"
    /\ \A i \in 1..Len(posts) :
          posts[i] = "ConnectError" =>
             /\ i = Len(posts)
             /\ cpc = "raised"
             /\ cresult.kind = "raise" /\ cresult.exc = "ConnectError"
             /\ Len(sleeps) = i - 1

\* A call has ended with a refused connection at its third request.
C20_Witness ==
    /\ cpc = "raised"
    /\ posts = <<"TimeoutException", "TimeoutException", "ConnectError">>
    /\ sleeps = <<1, 2>>

(***************************************************************************)
(* The inference client: C21                                               *)
(***************************************************************************)

\* C21: a request answered with a completion is the last of its call; when
\* _clean_response raises for that completion, the call raises that very
\* ValueError, with its message and with no cause; it is neither the format
\* error nor the "failed after 3 attempts" error, and no wait follows it.
C21_EmptyOutputPropagates ==
    \A i \in 1..Len(posts) :
        posts[i] = "ok" =>
            /\ i = Len(posts)
            /\ Len(sleeps) = i - 1
            /\ cpc \in {"returned", "raised"}
            /\ cpc = "raised" =>
                  /\ cresult.kind = "raise" /\ cresult.exc = "ValueError"
                  /\ cresult.cause = NoError
                  /\ cresult.msg \in EmptyOutputs
                  /\ \E content \in Contents :
                        _clean_response(content, ctext).raised = cresult.msg

\* A call has ended with the ValueError of _clean_response at its second
\* request: the completion was all markup.
C21_Witness ==
    /\ cpc = "raised"
    /\ posts = <<"TimeoutException", "ok">>
    /\ cresult.msg = "Empty response after removing thinking tags"

(***************************************************************************)
(* The router over the clients: C22                                        *)
(***************************************************************************)

\* C22: a routed request awaits the primary once and the fallback at most
\* once, the fallback only after the primary has raised; each of these calls
\* makes at most 3 provider requests; and a routed request in flight ends
\* with a result or an error.
C22_RoutedOnceAndEnds ==
    /\ [](/\ Len(rcalls) <= 2
          /\ rpc # "idle" =>
                /\ Len(rcalls) >= 1
                /\ rcalls[1].to = "primary"
          /\ Len(rcalls) = 2 =>
                /\ rcalls[2].to = "fallback"
                /\ rcalls[1].out.kind = "raise"
          /\ Len(posts) <= 3
          /\ rpc \in {"returned", "raised"} => rresult.kind \in {"return", "raise"})
    /\ (rpc \in {"primary", "fallback"}) ~> (rpc \in {"returned", "raised"})

\* A routed request has ended after 3 requests to the primary and 3 to the
\* fallback, all of which timed out.
C22_Witness ==
    /\ rpc = "raised"
    /\ Len(rcalls) = 2
    /\ primary_error.msg = <<"Translation failed after 3 attempts">>
    /\ posts = <<"TimeoutException", "TimeoutException", "TimeoutException">>

(***************************************************************************)
(* The translate operation: C23                                            *)
(***************************************************************************)

\* C23: the contents of the store change in a step only by losing entries
\* (expiry) or by the write of a translate request that has awaited the
\* provider and is answered with what the provider returned, a translation,
\* stored under the request's key with every other entry as it was; a
\* request that ends with an error, the provider's failure or a cancellation
\* included, leaves the contents as they were.
C23_NoWriteWithoutTranslation ==
    [][/\ rows' # rows =>
            \/ /\ DOMAIN rows' \subseteq DOMAIN rows
               /\ \A k \in DOMAIN rows' : rows'[k] = rows[k]
            \/ LET cache_key == _generate_key(hreq'.text, hreq'.source_lang,
                                              hreq'.target_lang, hreq'.context)
               IN  /\ hres'.kind = "result" /\ ~hres'.cached
                   /\ hcalls' = <<TranslateArgs(hreq')>>
                   /\ hres'.translation \in Translations
                   /\ DOMAIN rows' = DOMAIN rows \cup {cache_key}
                   /\ rows'[cache_key].translation = hres'.translation
                   /\ \A k \in DOMAIN rows \ {cache_key} : rows'[k] = rows[k]
       /\ (hres' # hres /\ hres'.kind = "error") => rows' = rows
      ]_vars

\* A request that missed was cancelled while it awaited the provider, and
\* the store holds what it held, an entry of another request.
C23_Witness ==
    /\ hres.kind = "error"
    /\ hres.error = "CancelledError"
    /\ hcalls = <<TranslateArgs(hreq)>>
    /\ hreq.use_cache
    /\ hres.rows0 # NoRows
    /\ rows = hres.rows0

(***************************************************************************)
(* Concurrent requests and the life of a process: C24, C25                 *)
(***************************************************************************)

\* C24: of two requests of the server for the same key that have both ended,
\* neither has failed, and the store holds one entry for the key, whose
\* translation is the one answered to one of the two.
C24_ConcurrentSameKey ==
    \A i, j \in 1..MaxTasks :
        (/\ i # j
         /\ tasks[i].pc = "done" /\ tasks[j].pc = "done"
         /\ tasks[i].request = tasks[j].request) =>
            LET r == tasks[i].request
                cache_key == _generate_key(r.text, r.source_lang, r.target_lang,
                                           r.context)
            IN  /\ tasks[i].answer.kind = "result"
                /\ tasks[j].answer.kind = "result"
                /\ cache_key \in DOMAIN rows
                /\ rows[cache_key].translation
                      \in {tasks[i].answer.translation, tasks[j].answer.translation}

\* C25: a process whose startup is over has called clear_expired exactly
\* once, and so has every process that has handled a translate request.
C25_SweptOnceAtStartup ==
    /\ life.phase \in {"serving", "stopped", "failed"} => life.sweeps = 1
    /\ life.served => life.sweeps = 1

(***************************************************************************)
(* The store: C26                                                          *)
(***************************************************************************)

\* C26: when set has returned, the file holds the row it wrote; and when the
\* connection is gone (close(), or the death of the process) and when the
\* store has been initialized again on the same path, every key has in the
\* file the translation of its newest set, so that get yields it.
C26_SetIsDurable ==
    /\ (ret.op = "set" /\ ret.err = "") =>
          SelectTranslation(rows, ret.key) = ret.val
    /\ (conn \in {"closed", "lost"} \/ ret.op = "initialize") =>
          \A k \in DOMAIN lastSet :
              SelectTranslation(rows, k) = lastSet[k].translation

\* The store has just been initialized again on a path whose file holds the
\* rows of sets that returned before the connection was gone.
C26_Witness ==
    /\ ret.op = "initialize"
    /\ ret.rows0 # NoRows
    /\ lastSet = ret.rows0
    /\ rows = ret.rows0
    /\ conn = "open"
    /\ db = "conn"

(***************************************************************************)
(* The normalizer: C27 .. C30                                              *)
(***************************************************************************)

\* s up to its first <think>, the whole of s if it has none.
CutAtThink(s) ==
    LET opens == {i \in 1..Len(s) : IMatchAt(s, i, ThinkOpen)}
    IN  IF opens = {} THEN s ELSE SubSeq(s, 1, Min(opens) - 1)

\* C27: with every <think>...</think> span removed, then a <think> left open
\* with everything after it to the end of the text, then the other tags,
\* the cleaning fails with "Empty response after removing thinking tags"
\* exactly when nothing is left, and nothing of the reasoning comes back
\* when something is left.
C27_OpenThinkRemovedToEnd ==
    (nout # NotCleaned /\ ~Blank(nraw)) =>
        LET kept == Trimmed(RemoveTags(CutAtThink(RemoveThinkSpans(Trimmed(nraw)))))
        IN  /\ (kept = <<>>) <=>
                  (nout.raised = "Empty response after removing thinking tags")
            /\ kept \in PlainTranslations \cup {<<"h", "o", "u", "s", "e">>} =>
                  nout = Cleaned(kept)

\* What the stages before the explanation patterns leave.
AfterQuotes(raw, original_text) ==
    StripAddedQuotes(ExtractFromVerbose(StripMarkup(Trimmed(raw)), original_text),
                     original_text)

\* C28: when the text that the explanation patterns have worked on has more
\* than one line, the result is its first line, in order, that is not blank
\* and matches no explanation pattern, trimmed; with no such line the text
\* is the result, trimmed.
C28_FirstQualifyingLine ==
    (nout # NotCleaned /\ ~Blank(nraw) /\ StripMarkup(Trimmed(nraw)) # <<>>) =>
        LET text == CutExplanation(AfterQuotes(nraw, norig))
            lines == SplitLines(text)
            Qualifies(i) == ~Blank(lines[i]) /\ ~MatchesExplanation(Trimmed(lines[i]))
        IN  Len(lines) > 1 =>
              \/ \E i \in 1..Len(lines) :
                    /\ Qualifies(i)
                    /\ \A j \in 1..(i - 1) : ~Qualifies(j)
                    /\ nout = Cleaned(Trimmed(lines[i]))
              \/ /\ \A i \in 1..Len(lines) : ~Qualifies(i)
                 /\ nout = Cleaned(Trimmed(text))

\* Of two lines the first matches an explanation pattern, and the second is
\* the result.
C28_Witness ==
    /\ nraw = <<"N", "o", "t", "e", ":", " ", "x", "\n", "h", "o", "u", "s", "e">>
    /\ nout = Cleaned(<<"h", "o", "u", "s", "e">>)

\* The linking word w stands in s at i as a whole word.
WholeWordAt(s, i, w) ==
    /\ IMatchAt(s, i, w)
    /\ i = 1 \/ s[i - 1] \notin WordChars
    /\ i + Len(w) > Len(s) \/ s[i + Len(w)] \notin WordChars

\* C29: a text of one line in which an explanation pattern matches becomes
\* what precedes its first linking word (is, means, refers to, as a whole
\* word), trimmed, when that is not blank; a text in which no pattern
\* matches, or which has no linking word, or nothing before it, is left as
\* it is.
C29_CutAtFirstLinkingWord ==
    (nout # NotCleaned /\ ~Blank(nraw) /\ StripMarkup(Trimmed(nraw)) # <<>>) =>
        LET text == AfterQuotes(nraw, norig)
            at == {i \in 1..Len(text) : \E w \in LinkingWords : WholeWordAt(text, i, w)}
            before == IF at = {} THEN <<>> ELSE SubSeq(text, 1, Min(at) - 1)
        IN  (\A i \in 1..Len(text) : text[i] # "\n") =>
               IF MatchesExplanation(text) /\ ~Blank(before)
               THEN nout = Cleaned(Trimmed(before))
               ELSE IF Blank(text)
               THEN nout.raised = "Response cleaning resulted in empty translation"
               ELSE nout = Cleaned(Trimmed(text))

\* "This means house": the "is" of "This" is no whole word, and what
\* precedes "means" is the result.
C29_Witness ==
    /\ nraw = <<"T", "h", "i", "s", " ", "m", "e", "a", "n", "s", " ", "h", "o", "u", "s", "e">>
    /\ nout = Cleaned(<<"T", "h", "i", "s">>)

\* What the stages after the verbose prefix make of s.
AfterPrefixStage(s, original_text) ==
    Strip(FirstPlainLine(CutExplanation(StripAddedQuotes(s, original_text))))

\* C30: when the text starts with a filler, the result comes from the text
\* as it is or from the content of a quoted span of it, a pair of quote
\* characters after the filler with no quote character between them, that
\* is not longer than twice the original; it never comes from a piece of the
\* filler.
C30_ExtractedSpanIsQuoted ==
    (nout # NotCleaned /\ nout.raised = "" /\ HasVerbosePrefix(StripMarkup(Trimmed(nraw)))) =>
        LET text == StripMarkup(Trimmed(nraw))
            fillers == {w \in VerboseFillers :
                           /\ IMatchAt(text, 1, w)
                           /\ Len(text) > Len(w)
                           /\ text[Len(w) + 1] \in {","} \cup Whitespace}
            start == CHOOSE n \in {Len(w) : w \in fillers} :
                        \A w \in fillers : Len(w) <= n
            spans == {sp \in ((start + 1)..Len(text)) \X ((start + 1)..Len(text)) :
                         /\ sp[1] + 1 < sp[2]
                         /\ text[sp[1]] \in QuoteChars
                         /\ text[sp[2]] \in QuoteChars
                         /\ \A k \in (sp[1] + 1)..(sp[2] - 1) : text[k] \notin QuoteChars}
        IN  \/ nout.text = AfterPrefixStage(text, norig)
            \/ \E sp \in spans :
                  LET content == Trimmed(SubSeq(text, sp[1] + 1, sp[2] - 1))
                  IN  /\ Len(content) <= 2 * Len(norig)
                      /\ nout.text = AfterPrefixStage(content, norig)

(***************************************************************************)
(* The normalizer: C31                                                     *)
(***************************************************************************)

\* s gives no stage a match: it has no tag, starts with no filler, neither
\* begins and ends with a double quote nor begins and ends with a single
\* quote, has no explanation pattern in it and is of one line.
NoStageMatches(s) ==
    /\ \A i \in 1..Len(s) : TagEnd(s, i) = 0
    /\ ~HasVerbosePrefix(s)
    /\ ~(StartsWith(s, "\"") /\ EndsWith(s, "\""))
    /\ ~(StartsWith(s, "'") /\ EndsWith(s, "'"))
    /\ ~MatchesExplanation(s)
    /\ \A i \in 1..Len(s) : s[i] # "\n"

C33_Rejected(r) ==
    \/ Falsy(r.text)
    \/ SanitizedText(r.text) = <<>>
    \/ Len(SanitizedText(r.text)) > max_text_length
    \/ r.source_lang \notin supported_languages
    \/ r.target_lang \notin supported_languages
    \/ r.source_lang = r.target_lang

\* C33: a step of POST /translate on a request that input validation rejects
\* answers with status 422, calls no provider, and leaves the store alone:
\* no lookup, no write, not even an access to the store object.
C33_RejectedBeforeStoreAndProvider ==
    [][(/\ hres'.by = "translate"
        /\ <<hreq, hcalls, hres>>' # <<hreq, hcalls, hres>>
        /\ C33_Rejected(hreq'))
       => (/\ hres'.kind = "error"
           /\ hres'.status = 422
           /\ hcalls' = <<>>
           /\ UNCHANGED storeVars)]_vars

\* A request with the same language twice was answered 422 while the store
\* held entries.
C33_Witness ==
    /\ hres.by = "translate"
    /\ hres.status = 422
    /\ hreq.source_lang = hreq.target_lang
    /\ hreq.source_lang \in supported_languages
    /\ rows # NoRows
    /\ hres.rows0 = rows

\* C32: a request of POST /translate that misses the cache and whose provider
\* call raises ValueError is answered 500 "Translation failed", one whose
\* provider call raises another exception is answered 503 "Translation
\* server is not responding", and only a failed provider call is answered 503.
C32_ProviderFailureStatus ==
    \A i \in 1..MaxTasks :
        tasks[i].pc = "done" =>
            LET r == tasks[i].request
                a == tasks[i].answer
                miss == Falsy(SelectTranslation(a.rows0,
                            _generate_key(r.text, r.source_lang, r.target_lang, r.context)))
                failed == tasks[i].llm.kind = "raise"
            IN  /\ (miss /\ failed /\ tasks[i].llm.error.type = "ValueError")
                       => (a.status = 500 /\ a.error = "Translation failed")
                /\ (miss /\ failed /\ tasks[i].llm.error.type # "ValueError")
                       => (a.status = 503 /\ a.error = "Translation server is not responding")
                /\ a.status = 503 => failed

\* C34: every translation the translate flow has written to the store is a
\* non-empty string that has no whitespace at either end, a value that
\* _clean_response returns for one of the completions, and one that the
\* test `if cached_translation` takes for a hit.
C34_WrittenTranslationsAreCleaned ==
    \A k \in DOMAIN rows :
        /\ rows[k].translation # None
        /\ rows[k].translation # <<>>
        /\ rows[k].translation[1] \notin Whitespace
        /\ rows[k].translation[Len(rows[k].translation)] \notin Whitespace
        /\ \E content \in Contents :
              _clean_response(content, rows[k].text) = Cleaned(rows[k].translation)
        /\ ~Falsy(SelectTranslation(rows, k))

\* The flow has written the translation of a completion that came with
\* spaces around it, after a request that failed.
C34_Witness ==
    /\ hres.kind = "result"
    /\ ~hres.cached
    /\ hres.translation = <<"H", "a", "l", "l", "o">>
    /\ posts = <<"TimeoutException", "ok">>
    /\ DOMAIN rows # {}
    /\ \E k \in DOMAIN rows : rows[k].translation = hres.translation

\* C38: a step of the native host's handle_translate on a request that has
\* its fields and use_cache = false leaves the store as it was (no lookup,
\* no write, the entries unchanged), calls the provider once, and a result
\* it answers with has cached = false.
C38_CacheOffLeavesStore ==
    [][(/\ hres'.by = "handle_translate"
        /\ <<hreq, hcalls, hres>>' # <<hreq, hcalls, hres>>
        /\ ~hreq'.use_cache
        /\ ~Falsy(hreq'.text) /\ ~Falsy(hreq'.source_lang) /\ ~Falsy(hreq'.target_lang))
       => (/\ UNCHANGED storeVars
           /\ hcalls' = <<TranslateArgs(hreq')>>
           /\ hres'.kind = "result" => ~hres'.cached)]_vars

\* A request with use_cache = false was answered with a new translation
\* while the store held, and still holds, another one for its key.
C38_Witness ==
    LET cache_key == _generate_key(hreq.text, hreq.source_lang, hreq.target_lang,
                                   hreq.context)
    IN  /\ hres.by = "handle_translate"
        /\ hres.kind = "result"
        /\ ~hreq.use_cache
        /\ ~hres.cached
        /\ hcalls = <<TranslateArgs(hreq)>>
        /\ cache_key \in DOMAIN rows
        /\ rows[cache_key].translation # hres.translation
        /\ ret.op = "set"

\* C35: the table holds one row for each hash it holds, and every step of the
\* store touches only what its operation names: set(k, ...) leaves the rows
\* of the other hashes as they were and adds no hash but k, get changes no
\* row, and clear_expired leaves each row it retains as it was and adds none.
C35_OperationsTouchWhatTheyName ==
    [][/\ (ret'.op = "set" /\ ret'.err = "")
            => /\ DOMAIN rows' = DOMAIN rows \cup {ret'.key}
               /\ \A k \in DOMAIN rows \ {ret'.key} : rows'[k] = rows[k]
       /\ (ret'.op = "get") => rows' = rows
       /\ (ret'.op = "clear_expired")
            => /\ DOMAIN rows' \subseteq DOMAIN rows
               /\ \A k \in DOMAIN rows' : rows'[k] = rows[k]]_vars

\* A set has replaced the row of k1 at a later time, with another
\* translation of the same text, and the row of k2 is the one written first.
C35_Witness ==
    /\ ret.op = "set"
    /\ ret.key = "k1"
    /\ DOMAIN rows = {"k1", "k2"}
    /\ rows["k1"].text = rows["k2"].text
    /\ rows["k1"].translation # rows["k2"].translation
    /\ rows["k1"].timestamp > rows["k2"].timestamp
    /\ ret.rows0 # NoRows
    /\ "k1" \in DOMAIN ret.rows0

\* C36: a step of initialize() on a path that holds a database leaves every
\* entry as it was, so that get returns for each stored key the translation
\* it returned before, and leaves the version marker as it was, also when
\* the marker is not SCHEMA_VERSION.
C36_InitializeKeepsEntries ==
    [][(db = "None" /\ db' # "None")
       => (/\ rows' = rows
           /\ \A k \in DOMAIN rows :
                 SelectTranslation(rows', k) = SelectTranslation(rows, k)
           /\ version # {} => version' = version)]_vars

\* A store whose marker is not SCHEMA_VERSION was written, closed and
\* initialized again, and holds the entries and the marker it held.
C36_Witness ==
    /\ ret.op = "initialize"
    /\ db = "conn"
    /\ conn = "open"
    /\ version = {SCHEMA_VERSION + 1}
    /\ DOMAIN rows = {"k1", "k2"}
    /\ ret.rows0 = rows
    /\ ret.version0 = version

\* C37: when translate() has returned, the request that was answered is its
\* last and its only answered one, and what is returned is what
\* _clean_response makes of a completion; if the k-1 requests before it timed
\* out, k requests were made (k <= 3) with k-1 waits between them; and after
\* the return no request is made and no wait begun until translate() is
\* called again.
C37_FirstSuccessEndsLoop ==
    /\ [](cpc = "returned" =>
            /\ posts # <<>>
            /\ posts[Len(posts)] = "ok"
            /\ \A i \in 1..(Len(posts) - 1) : posts[i] # "ok"
            /\ cresult.kind = "return"
            /\ \E content \in Contents : _clean_response(content, ctext) = Cleaned(cresult.value)
            /\ (\A i \in 1..(Len(posts) - 1) : posts[i] = "TimeoutException")
                  => /\ Len(posts) <= DEFAULT_MAX_RETRIES
                     /\ Len(posts) = attempt + 1
                     /\ Len(sleeps) = Len(posts) - 1)
    /\ [][cpc = "returned" =>
            \/ posts' = posts /\ sleeps' = sleeps /\ cpc' = "returned"
            \/ cpc' = "post" /\ posts' = <<>> /\ sleeps' = <<>> /\ attempt' = 0]_vars

\* Two requests timed out and the third was answered: translate() returned
\* after three requests and two waits.
C37_Witness ==
    /\ cpc = "returned"
    /\ posts = <<"TimeoutException", "TimeoutException", "ok">>
    /\ Len(sleeps) = 2
    /\ attempt = 2
    /\ cresult = Return(<<"H", "a", "l", "l", "o">>)

====
